---- MODULE Spec2Model ----
(***************************************************************************)
(* Verification model of dutch-learn-v2 (desktop backend).                 *)
(*                                                                         *)
(*   SpecSplit : SentenceSplitter (services/sentence_splitter.py), a pure  *)
(*               function applied to bounded utterances.                   *)
(*   Spec      : Processor.process_project (services/processor.py) with    *)
(*               the update_speaker endpoint running between its awaits.   *)
(*   SpecMerge : ProgressMerger.merge (services/progress_merger.py), a pure  *)
(*               function applied to bounded pairs of documents.           *)
(*   SpecImport: SyncService._import_project (services/sync_service.py)    *)
(*               called repeatedly with one document on a local database.  *)
(*   SpecSync  : SyncService.upload_to_drive and download_from_drive,     *)
(*               called repeatedly, each step of a pass free to raise.     *)
(*   SpecFull  : full_sync and the download endpoint on one project, the   *)
(*               local rows and the project.json on Drive with contents.   *)
(*   SpecProgress : the property Project.progress (models/project.py),     *)
(*               its float arithmetic computed bit by bit.                 *)
(*   SpecRetry : transcribe_with_retry and explain_with_retry.             *)
(*   SpecUpload: the import_project endpoint (routers/projects.py)         *)
(*               called repeatedly with one export file.                   *)
(*                                                                         *)
(* A text is modelled by the list of its whitespace-separated words        *)
(* (str.split()).  A word keeps what the splitter looks at: whether its    *)
(* first character is in [A-Z], and whether its last character is          *)
(* sentence-final (. ! ?), a clause boundary (, ; : em/en dash) or         *)
(* neither.  The field id is the position of the word in the input text,   *)
(* so that a lost, duplicated or reordered word is visible.                *)
(***************************************************************************)
EXTENDS Integers, Sequences, FiniteSets, TLC

VARIABLES
    \* --- SentenceSplitter._split_utterance
    utt,            \* the UtteranceInfo passed in
    max_words,      \* SentenceSplitter.max_words
    s_pc,           \* "input" | "returned" | "raised"
    final_texts,    \* local final_texts after step 3
    merged_texts,   \* local final_texts after step 4
    result,         \* the list returned
    \* --- the project row
    status,
    error_message,        \* "" is None
    audio_file,           \* "" is None
    total_sentences,
    processed_sentences,
    \* --- the other rows of the project
    speakers,             \* label -> [display_name, evidence, is_manual]
    sentences,            \* list, by idx: [idx, text, speaker_id, explained]
    keywords,             \* idx of the sentences that have Keyword rows
    \* --- Processor.process_project
    pc,                   \* where the coroutine stands
    attempt,              \* attempt of the retry loop in progress
    batch_i,              \* i of the batch loop of _generate_explanations
    calls,                \* collaborator -> number of calls made
    exc,                  \* the exception caught at the top level
    ident,                \* how the identify collaborator answered
    raised,               \* what process_project raised to its caller
    \* --- ProgressMerger.merge
    local_data,           \* the local document
    remote_data,          \* the remote document
    merged_data,          \* the document returned
    m_pc,                 \* "input" | "returned" | "raised"
    \* --- SyncService._import_project
    database,             \* the committed rows of the local database
    snapshot,             \* the document imported
    imports,              \* number of imports that returned
    i_pc,                 \* "ready" | "raised"
    \* --- SyncService.upload_to_drive and download_from_drive
    sync_pc,              \* "call_upload" | "uploading" | "call_download" |
                          \* "downloading" | "returned" | "raised"
    drive,                \* the project folders on Google Drive
    local_projects,       \* project id -> status of the local row, "none" without one
    project_ids,          \* the argument: the ids selected, {} for no selection
    projects,             \* the list the loop goes through
    pos,                  \* number of passes of the loop made
    sync_calls,           \* number of calls made, this one included
    sync_results,         \* the dict returned
    \* --- Project.progress
    shown,                \* the value the property returned, NotRead before
    \* --- transcribe_with_retry and explain_with_retry
    r_fn,                 \* "transcribe" | "explain": the collaborator called
    r_max,                \* the argument max_retries
    r_delay,              \* the argument retry_delay, in seconds
    r_attempt,            \* attempt of the for loop
    r_calls,              \* number of calls of the collaborator made
    r_waits,              \* the delays slept, in order
    r_pc,                 \* "off" | "attempt" | "sleeping" | "returned" | "raised"
    r_raised,             \* the exception raised, "none" without one
    \* --- full_sync and download_from_drive on the project p1, the local
    \* rows in database, the project.json on Drive in snapshot
    endpoint,             \* "full_sync" | "download": the endpoint called
    full_pc,              \* "off" | "upload" | "download" | "done"
    local_before,         \* the local rows when the endpoint was called
    remote_before,        \* the project.json on Drive when it was called
    upload_result,        \* "none" | "uploaded" | "skipped" | "error"
    download_result,      \* "none" | "merged" | "error"
    \* --- POST /api/projects/import
    import_data,          \* the JSON of the file uploaded
    project_table,        \* the rows of the projects table, in insertion order
    imported_projects,    \* the list of the last response
    uploads               \* number of requests answered

svars == <<utt, max_words, s_pc, final_texts, merged_texts, result>>

rowvars == <<status, error_message, audio_file, total_sentences, processed_sentences,
             speakers, sentences, keywords>>

runvars == <<pc, attempt, batch_i, calls, exc, ident, raised>>

mvars == <<local_data, remote_data, merged_data, m_pc>>

ivars == <<database, snapshot, imports, i_pc>>

yvars == <<sync_pc, drive, local_projects, project_ids, projects, pos, sync_calls,
           sync_results>>

pvars == <<shown>>

retryvars == <<r_fn, r_max, r_delay, r_attempt, r_calls, r_waits, r_pc, r_raised>>

fullvars == <<endpoint, full_pc, local_before, remote_before, upload_result,
              download_result>>

\* the state of the smaller services
uploadvars == <<import_data, project_table, imported_projects, uploads>>

morevars == <<pvars, retryvars, fullvars, uploadvars>>

\* the state of the services that an action of another one leaves alone
syncvars == <<mvars, ivars, yvars, morevars>>

vars == <<svars, rowvars, runvars, morevars, syncvars>>

\* ------------------------------------------------------------------ bounds
MaxLen == 7          \* longest input text, in words
MaxBudget == 3       \* largest max_words the splitter is constructed with
MaxMarks == 2        \* most words of an input text that carry a capital or punctuation
MaxCount == 2        \* largest learn_count and review_count of a document
MaxItems == 2        \* longest sentence, keyword and speaker list of a document
MaxImports == 3      \* imports of one document in a row
MaxFolders == 2      \* project folders on the Drive before the call
MaxCalls == 2        \* successive upload and download calls

\* ------------------------------------------------------- program constants
MIN_SEGMENT_WORDS == 3

\* ---------------------------------------------------------------- helpers
Min(a, b) == IF a < b THEN a ELSE b

Abs(x) == IF x < 0 THEN -x ELSE x

\* Python slice s[a:b] for 0 <= a, 0 <= b (0-based, end exclusive, clamped).
PySlice(s, a, b) ==
    LET lo == Min(a, Len(s))
        hi == Min(b, Len(s))
    IN  IF lo >= hi THEN << >> ELSE SubSeq(s, lo + 1, hi)

\* ------------------------------------------------------------ input space
Punct == {"n", "s", "c"}    \* last character: none / sentence-final / clause

WordKinds == [up : BOOLEAN, p : Punct]

\* the text whose i-th word has kind ks[i]
MkText(ks) == [i \in 1..Len(ks) |-> [id |-> i, up |-> ks[i].up, p |-> ks[i].p]]

Plain == [up |-> FALSE, p |-> "n"]

Texts ==
    UNION {{MkText(ks) : ks \in {f \in [1..n -> WordKinds] :
                                    Cardinality({i \in 1..n : f[i] # Plain}) <= MaxMarks}}
           : n \in 0..MaxLen}

\* word timestamps as the test helper _make_words lays them out: word k
\* of an utterance starting at t0 occupies [t0 + 2(k-1), t0 + 2(k-1) + 1]
MkWords(t0, n) == [k \in 1..n |-> [start |-> t0 + 2 * (k - 1), end |-> t0 + 2 * (k - 1) + 1]]

\* ------------------------------------------------------- SentenceSplitter
\* SENTENCE_BOUNDARY_RE: whitespace preceded by . ! ? and followed by [A-Z]
SENTENCE_BOUNDARY(text, i) ==
    /\ i >= 1 /\ i < Len(text)
    /\ text[i].p = "s"
    /\ text[i + 1].up

\* SENTENCE_BOUNDARY_RE.split(text), stripped, empty pieces dropped
RECURSIVE sentence_split(_)
sentence_split(text) ==
    IF text = << >> THEN << >>
    ELSE LET cuts == {i \in 1..(Len(text) - 1) : SENTENCE_BOUNDARY(text, i)}
             k == IF cuts = {} THEN Len(text)
                  ELSE CHOOSE i \in cuts : \A j \in cuts : i <= j
         IN  <<SubSeq(text, 1, k)>> \o sentence_split(SubSeq(text, k + 1, Len(text)))

\* 0-based indices of the words that end with a clause boundary character
boundary_positions(words) == {i \in 0..(Len(words) - 1) : words[i + 1].p = "c"}

\* variant of closest_boundary: a later boundary word at the same distance wins
RECURSIVE closest_boundary_last(_, _, _, _)
closest_boundary_last(words, i, best, midpoint) ==
    IF i >= Len(words) THEN best
    ELSE IF words[i + 1].p # "c" THEN closest_boundary_last(words, i + 1, best, midpoint)
    ELSE IF best < 0 \/ Abs(i - midpoint) <= Abs(best - midpoint)
         THEN closest_boundary_last(words, i + 1, i, midpoint)
         ELSE closest_boundary_last(words, i + 1, best, midpoint)

\* min(boundary_positions, key=lambda p: abs(p - midpoint)) as min() works:
\* the positions are visited in list order, which is ascending word index
\* from word i on, and the one held (best, negative for none yet) is
\* replaced only by one whose key is strictly smaller
RECURSIVE closest_boundary(_, _, _, _)
closest_boundary(words, i, best, midpoint) ==
    IF i >= Len(words) THEN best
    ELSE IF words[i + 1].p # "c" THEN closest_boundary(words, i + 1, best, midpoint)
    ELSE IF best < 0 \/ Abs(i - midpoint) < Abs(best - midpoint)
         THEN closest_boundary(words, i + 1, i, midpoint)
         ELSE closest_boundary(words, i + 1, best, midpoint)

\* midpoint = total // 2; best_pos = min(boundary_positions, key=...)
best_pos(words) == closest_boundary(words, 0, 0 - 1, Len(words) \div 2)

\* _split_on_clauses never returns (RecursionError) when the chosen boundary
\* is the last word: left is then the whole text again
RECURSIVE clause_recursion_error(_, _)
clause_recursion_error(words, maxw) ==
    /\ Len(words) > maxw
    /\ boundary_positions(words) # {}
    /\ LET b == best_pos(words)
           left == PySlice(words, 0, b + 1)
           right == PySlice(words, b + 1, Len(words))
       IN  IF b = Len(words) - 1 THEN TRUE
           ELSE \/ clause_recursion_error(left, maxw)
                \/ clause_recursion_error(right, maxw)

\* _split_on_clauses, where it returns
RECURSIVE _split_on_clauses(_, _)
_split_on_clauses(words, maxw) ==
    IF Len(words) <= maxw THEN <<words>>
    ELSE IF boundary_positions(words) = {} THEN <<words>>
    ELSE LET b == best_pos(words)
             left == PySlice(words, 0, b + 1)
             right == PySlice(words, b + 1, Len(words))
         IN  IF b = Len(words) - 1 THEN <<words>>
             ELSE (IF Len(left) > maxw THEN _split_on_clauses(left, maxw)
                   ELSE <<left>>)
                  \o
                  (IF right # << >> /\ Len(right) > maxw
                      THEN _split_on_clauses(right, maxw)
                   ELSE IF right # << >> THEN <<right>>
                   ELSE << >>)

\* variant: only the first window is kept
hard_split_first_window(words, maxw) == <<PySlice(words, 0, maxw)>>

\* _hard_split: windows of max_words words
RECURSIVE _hard_split(_, _)
_hard_split(words, maxw) ==
    IF words = << >> THEN << >>
    ELSE <<PySlice(words, 0, maxw)>>
         \o _hard_split(PySlice(words, maxw, Len(words)), maxw)

\* the while loop of _merge_short_segments; i is 1-based here
RECURSIVE merge_loop(_, _, _)
merge_loop(segments, i, merged) ==
    IF i > Len(segments) THEN merged
    ELSE LET seg == segments[i]
         IN  IF Len(seg) < MIN_SEGMENT_WORDS
             THEN IF merged # << >>
                  THEN merge_loop(segments, i + 1,
                           [merged EXCEPT ![Len(merged)] = merged[Len(merged)] \o seg])
                  ELSE IF i + 1 <= Len(segments)
                  THEN merge_loop([segments EXCEPT ![i + 1] = seg \o segments[i + 1]],
                                  i + 1, merged)
                  ELSE merge_loop(segments, i + 1, Append(merged, seg))
             ELSE merge_loop(segments, i + 1, Append(merged, seg))

_merge_short_segments(segments) ==
    IF Len(segments) <= 1 THEN segments ELSE merge_loop(segments, 1, << >>)

\* step 2 of _split_utterance
RECURSIVE refine(_, _)
refine(raw, maxw) ==
    IF raw = << >> THEN << >>
    ELSE (IF Len(Head(raw)) > maxw THEN _split_on_clauses(Head(raw), maxw)
          ELSE <<Head(raw)>>)
         \o refine(Tail(raw), maxw)

\* step 3 of _split_utterance
RECURSIVE hard_pass(_, _)
hard_pass(refined, maxw) ==
    IF refined = << >> THEN << >>
    ELSE (IF Len(Head(refined)) > maxw THEN _hard_split(Head(refined), maxw)
          ELSE <<Head(refined)>>)
         \o hard_pass(Tail(refined), maxw)

\* the loop of _map_to_utterances: one UtteranceInfo per text, in order
RECURSIVE map_loop(_, _, _)
map_loop(texts, original, word_idx) ==
    IF texts = << >> THEN << >>
    ELSE LET seg_word_count == Len(Head(texts))
             seg_words == PySlice(original.words, word_idx, word_idx + seg_word_count)
         IN  <<[text |-> Head(texts),
                start |-> IF seg_words # << >> THEN seg_words[1].start ELSE original.start,
                end |-> IF seg_words # << >> THEN seg_words[Len(seg_words)].end
                        ELSE original.end,
                speaker_label |-> original.speaker_label,
                words |-> seg_words]>>
             \o map_loop(Tail(texts), original, word_idx + seg_word_count)

\* the loop alone, first start and last end as the words give them
map_without_pinning(texts, original) == map_loop(texts, original, 0)

_map_to_utterances(texts, original) ==
    LET utterances == map_loop(texts, original, 0)
        n == Len(utterances)
    IN  IF n = 0 THEN utterances
        ELSE LET pinned == [utterances EXCEPT ![1].start = original.start]
             IN  [pinned EXCEPT ![n].end = original.end]

\* _split_utterance raises RecursionError out of step 2
split_raises(u, maxw) ==
    \E k \in 1..Len(sentence_split(u.text)) :
        clause_recursion_error(sentence_split(u.text)[k], maxw)

\* _split_utterance, where it returns: the texts after steps 1-3, after
\* step 4, and the returned utterances
final_texts_of(text, maxw) == hard_pass(refine(sentence_split(text), maxw), maxw)

_split_utterance(u, maxw) ==
    LET texts == _merge_short_segments(final_texts_of(u.text, maxw))
    IN  IF Len(texts) <= 1 THEN <<u>>
        ELSE _map_to_utterances(texts, u)

\* split_utterances: the segments of every utterance, in order
RECURSIVE split_utterances(_, _)
split_utterances(utterances, maxw) ==
    IF utterances = << >> THEN << >>
    ELSE _split_utterance(Head(utterances), maxw)
         \o split_utterances(Tail(utterances), maxw)

Speakers == {"A", "B"}

\* an utterance from 10 to past its last word, its words laid out from 11
MkUtterance(t, k, label) ==
    [text |-> t, start |-> 10, end |-> 2 * Len(t) + 15, speaker_label |-> label,
     words |-> MkWords(11, k)]

\* ------------------------------------------------------ JSON documents
\* A JSON value as a Python dict holds it.  kind "missing" is an absent key.
JMissing == [kind |-> "missing", n |-> 0, s |-> ""]
JNull == [kind |-> "null", n |-> 0, s |-> ""]
JBool(b) == [kind |-> "bool", n |-> IF b THEN 1 ELSE 0, s |-> ""]
JInt(i) == [kind |-> "int", n |-> i, s |-> ""]
JStr(x) == [kind |-> "str", n |-> 0, s |-> x]

\* bool(v)
Truthy(v) ==
    \/ v.kind = "bool" /\ v.n = 1
    \/ v.kind = "int" /\ v.n # 0
    \/ v.kind = "str" /\ v.s # ""

\* d.get(key, default), v the value under key or JMissing
dict_get(v, default) == IF v.kind = "missing" THEN default ELSE v

\* a or b
py_or(a, b) == IF Truthy(a) THEN a ELSE b

Max(a, b) == IF a >= b THEN a ELSE b

\* The timestamp strings of the model and what datetime.fromisoformat makes
\* of them after a trailing Z became +00:00: unparsable, or an instant
\* (t, in days) that is timezone-aware or naive.
Timestamps ==
    [s : {"2024-01-01T10:00:00"},       ok : {TRUE}, aware : {FALSE}, t : {1}] \cup
    [s : {"2024-01-01T10:00:00Z"},      ok : {TRUE}, aware : {TRUE},  t : {1}] \cup
    [s : {"2024-01-02T10:00:00"},       ok : {TRUE}, aware : {FALSE}, t : {2}] \cup
    [s : {"2024-01-02T10:00:00+00:00"}, ok : {TRUE}, aware : {TRUE},  t : {2}] \cup
    [s : {"not a date"},                ok : {FALSE}, aware : {FALSE}, t : {0}]

\* datetime.now().isoformat() at the time of the merge
Now == JStr("2024-01-03T10:00:00")

NoDatetime == [s |-> "", ok |-> FALSE, aware |-> FALSE, t |-> 0]

\* _parse_timestamp: None (ok FALSE) for a falsy or unparsable value
_parse_timestamp(ts) ==
    IF ~Truthy(ts) THEN NoDatetime
    ELSE IF \E d \in Timestamps : d.s = ts.s
         THEN CHOOSE d \in Timestamps : d.s = ts.s
         ELSE NoDatetime

\* comparing two datetimes raises TypeError when one is naive and the other aware
compare_raises(dt1, dt2) == dt1.ok /\ dt2.ok /\ dt1.aware # dt2.aware

\* an insertion-ordered dict as a list of [key, val]; d[key] = val
Keys(d) == {d[i].key : i \in 1..Len(d)}

dict_set(d, key, val) ==
    IF key \in Keys(d)
    THEN [i \in 1..Len(d) |-> IF d[i].key = key THEN [key |-> key, val |-> val] ELSE d[i]]
    ELSE Append(d, [key |-> key, val |-> val])

dict_at(d, key) == (CHOOSE i \in 1..Len(d) : d[i].key = key)

Lookup(d, key) == d[dict_at(d, key)].val

\* list(d.values())
dict_values(d) == [i \in 1..Len(d) |-> d[i].val]

\* {x['id']: x for x in items}
RECURSIVE index_by_id(_, _)
index_by_id(items, d) ==
    IF items = << >> THEN d
    ELSE index_by_id(Tail(items), dict_set(d, Head(items).id, Head(items)))

by_id(items) == index_by_id(items, << >>)

\* ------------------------------------------------------- ProgressMerger

\* the merged last_reviewed of one sentence (lines 111-118)
merged_last_reviewed(local_lr, remote_lr) ==
    IF Truthy(local_lr) /\ Truthy(remote_lr)
    THEN LET local_dt == _parse_timestamp(local_lr)
             remote_dt == _parse_timestamp(remote_lr)
         IN  IF local_dt.ok /\ remote_dt.ok /\ local_dt.t >= remote_dt.t
             THEN local_lr ELSE remote_lr
    ELSE py_or(local_lr, remote_lr)

last_reviewed_raises(local_lr, remote_lr) ==
    /\ Truthy(local_lr)
    /\ Truthy(remote_lr)
    /\ compare_raises(_parse_timestamp(local_lr), _parse_timestamp(remote_lr))

\* {} for a sentence one side does not have: every key absent
NoSentence ==
    [id |-> "", index |-> JMissing, learned |-> JMissing, learn_count |-> JMissing,
     is_difficult |-> JMissing, review_count |-> JMissing, last_reviewed |-> JMissing,
     keywords |-> << >>]

\* the loop body keeping the local progress of a sentence the local side has
merge_sentence_local_wins(local_s, remote_s) ==
    IF local_s # NoSentence
    THEN [local_s EXCEPT
             !.learned = dict_get(local_s.learned, JBool(FALSE)),
             !.learn_count = JInt(py_or(dict_get(local_s.learn_count, JInt(0)), JInt(0)).n),
             !.is_difficult = dict_get(local_s.is_difficult, JBool(FALSE)),
             !.review_count = JInt(py_or(dict_get(local_s.review_count, JInt(0)), JInt(0)).n),
             !.last_reviewed = dict_get(local_s.last_reviewed, JNull)]
    ELSE remote_s

\* the body of the loop of _merge_sentences for one id (lines 86-120)
merge_sentence(local_s, remote_s) ==
    LET base == IF local_s # NoSentence THEN local_s ELSE remote_s
        local_count == py_or(dict_get(local_s.learn_count, JInt(0)), JInt(0))
        remote_count == py_or(dict_get(remote_s.learn_count, JInt(0)), JInt(0))
        local_review == py_or(dict_get(local_s.review_count, JInt(0)), JInt(0))
        remote_review == py_or(dict_get(remote_s.review_count, JInt(0)), JInt(0))
    IN  [base EXCEPT
            !.learned = py_or(dict_get(local_s.learned, JBool(FALSE)),
                              dict_get(remote_s.learned, JBool(FALSE))),
            !.learn_count = JInt(Max(local_count.n, remote_count.n)),
            !.is_difficult = py_or(dict_get(local_s.is_difficult, JBool(FALSE)),
                                   dict_get(remote_s.is_difficult, JBool(FALSE))),
            !.review_count = JInt(Max(local_review.n, remote_review.n)),
            !.last_reviewed = merged_last_reviewed(dict_get(local_s.last_reviewed, JNull),
                                                   dict_get(remote_s.last_reviewed, JNull))]

side(d, id) == IF id \in Keys(d) THEN Lookup(d, id) ELSE NoSentence

\* s.get('index', s.get('idx', 0)); the documents of the model carry no idx
sort_key(s) == dict_get(s.index, JInt(0)).n

\* list.sort(key=...): stable, by insertion
RECURSIVE insert_sorted(_, _)
insert_sorted(sorted, x) ==
    IF sorted = << >> THEN <<x>>
    ELSE IF sort_key(Head(sorted)) <= sort_key(x)
         THEN <<Head(sorted)>> \o insert_sorted(Tail(sorted), x)
         ELSE <<x>> \o sorted

\* the list left in the order of the loop
sort_dropped(items, sorted) == sorted \o items

RECURSIVE stable_sort(_, _)
stable_sort(items, sorted) ==
    IF items = << >> THEN sorted
    ELSE stable_sort(Tail(items), insert_sorted(sorted, Head(items)))

\* the orders in which `for sentence_id in all_ids` may visit a set of ids
Orders(ids) ==
    {o \in UNION {[1..n -> ids] : n \in {Cardinality(ids)}} :
        {o[i] : i \in 1..Len(o)} = ids}

all_ids(local, remote) == Keys(by_id(local)) \cup Keys(by_id(remote))

\* _merge_sentences, the set all_ids visited in the order given
_merge_sentences(local, remote, order) ==
    stable_sort([i \in 1..Len(order) |->
                    merge_sentence(side(by_id(local), order[i]),
                                   side(by_id(remote), order[i]))],
                << >>)

sentences_raise(local, remote) ==
    \E id \in all_ids(local, remote) :
        last_reviewed_raises(
            dict_get(side(by_id(local), id).last_reviewed, JNull),
            dict_get(side(by_id(remote), id).last_reviewed, JNull))

\* the local keywords followed by every remote keyword
merge_keywords_append_all(local, remote) ==
    dict_values(by_id(local)) \o dict_values(by_id(remote))

\* the loop of _merge_keywords over remote_by_id.items()
RECURSIVE add_remote_only(_, _, _)
add_remote_only(acc, remote_items, local_keys) ==
    IF remote_items = << >> THEN acc
    ELSE add_remote_only(
             IF Head(remote_items).id \in local_keys THEN acc
             ELSE Append(acc, Head(remote_items)),
             Tail(remote_items), local_keys)

\* the remote keywords first, the local-only ones added
merge_keywords_remote_first(local, remote) ==
    add_remote_only(dict_values(by_id(remote)), dict_values(by_id(local)),
                    Keys(by_id(remote)))

_merge_keywords(local, remote) ==
    add_remote_only(dict_values(by_id(local)), dict_values(by_id(remote)),
                    Keys(by_id(local)))

\* sp.get('id', '')
speaker_key(sp) == dict_get(sp.id, JStr("")).s

RECURSIVE local_speaker_map(_, _)
local_speaker_map(local_speakers, speaker_map) ==
    IF local_speakers = << >> THEN speaker_map
    ELSE local_speaker_map(Tail(local_speakers),
             dict_set(speaker_map, speaker_key(Head(local_speakers)), Head(local_speakers)))

RECURSIVE remote_speaker_map(_, _)
remote_speaker_map(remote_speakers, speaker_map) ==
    IF remote_speakers = << >> THEN speaker_map
    ELSE LET sp == Head(remote_speakers)
             sp_id == speaker_key(sp)
         IN  remote_speaker_map(Tail(remote_speakers),
                 IF sp_id \in Keys(speaker_map)
                 THEN IF Truthy(dict_get(sp.is_manual, JNull))
                         /\ ~Truthy(dict_get(Lookup(speaker_map, sp_id).is_manual, JNull))
                      THEN dict_set(speaker_map, sp_id, sp)
                      ELSE speaker_map
                 ELSE dict_set(speaker_map, sp_id, sp))

\* the remote speakers written over the local ones
merge_speakers_remote_wins(local_speakers, remote_speakers) ==
    dict_values(local_speaker_map(remote_speakers,
                                  local_speaker_map(local_speakers, << >>)))

_merge_speakers(local_speakers, remote_speakers) ==
    dict_values(remote_speaker_map(remote_speakers,
                                   local_speaker_map(local_speakers, << >>)))

\* progress is a dict with last_sync and the three totals; {} is NoProgress
NoProgress ==
    [last_sync |-> JMissing, total_sentences |-> JMissing,
     learned_sentences |-> JMissing, difficult_sentences |-> JMissing]

_merge_progress(local, remote) ==
    LET local_sync == dict_get(local.last_sync, JNull)
        remote_sync == dict_get(remote.last_sync, JNull)
        local_dt == _parse_timestamp(local_sync)
        remote_dt == _parse_timestamp(remote_sync)
    IN  IF Truthy(local_sync) /\ Truthy(remote_sync)
        THEN IF remote_dt.ok /\ local_dt.ok /\ remote_dt.t > local_dt.t
             THEN remote ELSE local
        ELSE IF Truthy(remote_sync) /\ ~Truthy(local_sync) THEN remote
        ELSE local

progress_raises(local, remote) ==
    /\ Truthy(dict_get(local.last_sync, JNull))
    /\ Truthy(dict_get(remote.last_sync, JNull))
    /\ compare_raises(_parse_timestamp(dict_get(local.last_sync, JNull)),
                      _parse_timestamp(dict_get(remote.last_sync, JNull)))

_earliest_timestamp(ts1, ts2) ==
    IF ~Truthy(ts1) THEN ts2
    ELSE IF ~Truthy(ts2) THEN ts1
    ELSE LET dt1 == _parse_timestamp(ts1)
             dt2 == _parse_timestamp(ts2)
         IN  IF dt1.ok /\ dt2.ok
             THEN IF dt1.t <= dt2.t THEN ts1 ELSE ts2
             ELSE py_or(ts1, ts2)

earliest_raises(ts1, ts2) ==
    /\ Truthy(ts1)
    /\ Truthy(ts2)
    /\ compare_raises(_parse_timestamp(ts1), _parse_timestamp(ts2))

\* sum(1 for s in items if s.get(flag, False))
Count(items, flag) ==
    Cardinality({i \in 1..Len(items) : Truthy(dict_get(items[i][flag], JBool(FALSE)))})

\* name and status with the remote document asked first
merged_name_remote_first(local, remote) ==
    py_or(dict_get(remote.name, JNull), dict_get(local.name, JNull))

\* 'name' and 'status' of the merged document (lines 35-36)
merged_name(local, remote) ==
    py_or(dict_get(local.name, JNull), dict_get(remote.name, JNull))

merged_status(local, remote) ==
    py_or(dict_get(local.status, JNull), dict_get(remote.status, JStr("ready")))

\* merge returning the progress block picked, its totals as they were
merge_stale_totals(local, remote, order) ==
    LET merged_sentences == _merge_sentences(local.sentences, remote.sentences, order)
    IN  [id |-> py_or(dict_get(local.id, JNull), dict_get(remote.id, JNull)),
         name |-> merged_name(local, remote),
         status |-> merged_status(local, remote),
         created_at |-> _earliest_timestamp(dict_get(local.created_at, JNull),
                                            dict_get(remote.created_at, JNull)),
         updated_at |-> Now,
         sentences |-> merged_sentences,
         keywords |-> _merge_keywords(local.keywords, remote.keywords),
         speakers |-> _merge_speakers(local.speakers, remote.speakers),
         progress |-> [_merge_progress(local.progress, remote.progress) EXCEPT
                          !.last_sync = Now]]

\* ProgressMerger.merge, where it returns
merge(local, remote, order) ==
    LET merged_sentences == _merge_sentences(local.sentences, remote.sentences, order)
    IN  [id |-> py_or(dict_get(local.id, JNull), dict_get(remote.id, JNull)),
         name |-> merged_name(local, remote),
         status |-> merged_status(local, remote),
         created_at |-> _earliest_timestamp(dict_get(local.created_at, JNull),
                                            dict_get(remote.created_at, JNull)),
         updated_at |-> Now,
         sentences |-> merged_sentences,
         keywords |-> _merge_keywords(local.keywords, remote.keywords),
         speakers |-> _merge_speakers(local.speakers, remote.speakers),
         progress |-> [_merge_progress(local.progress, remote.progress) EXCEPT
                          !.total_sentences = JInt(Len(merged_sentences)),
                          !.learned_sentences = JInt(Count(merged_sentences, "learned")),
                          !.difficult_sentences = JInt(Count(merged_sentences, "is_difficult")),
                          !.last_sync = Now]]

\* ProgressMerger.merge raises TypeError
merge_raises(local, remote) ==
    \/ earliest_raises(dict_get(local.created_at, JNull), dict_get(remote.created_at, JNull))
    \/ sentences_raise(local.sentences, remote.sentences)
    \/ progress_raises(local.progress, remote.progress)

\* ---- the dicts merge writes into
\* variant of written_sentence: merged_sentence is the input dict itself
written_sentence_shared(local_s, remote_s) ==
    IF local_s # NoSentence THEN "local" ELSE "remote"

\* the input whose dict merged_sentence is, for the writes of lines 94-118:
\* local_s.copy() or remote_s.copy() (lines 88-91) is a new dict, of no input
written_sentence(local_s, remote_s) == "copy"

\* the input whose dict _merge_progress returns, for the writes of lines
\* 60-68: remote.copy(), local.copy() or {} is a new dict, of no input
written_progress(local, remote) == "copy"

\* the sentences of one input (side_name "local" or "remote") after the
\* loop of _merge_sentences; by_id holds the last dict listed under an id
sentences_after(side_name, own, local, remote) ==
    [i \in 1..Len(own) |->
        LET local_s == side(by_id(local), own[i].id)
            remote_s == side(by_id(remote), own[i].id)
        IN  IF /\ written_sentence(local_s, remote_s) = side_name
               /\ \A j \in (i + 1)..Len(own) : own[j].id # own[i].id
            THEN merge_sentence(local_s, remote_s)
            ELSE own[i]]

\* one input document after merge has returned
input_after(side_name, local, remote, order) ==
    LET own == IF side_name = "local" THEN local ELSE remote
    IN  [own EXCEPT
            !.sentences = sentences_after(side_name, own.sentences,
                                          local.sentences, remote.sentences),
            !.progress = IF written_progress(local.progress, remote.progress) = side_name
                         THEN merge(local, remote, order).progress
                         ELSE own.progress]

\* --------------------------------------------------- documents to merge
\* a sentence as _export_project writes it, nothing learned yet
ExportedSentence(id, idx) ==
    [id |-> id, index |-> JInt(idx), learned |-> JBool(FALSE), learn_count |-> JInt(0),
     is_difficult |-> JBool(FALSE), review_count |-> JInt(0), last_reviewed |-> JNull,
     keywords |-> << >>]

ExportedProgress(ss) ==
    [last_sync |-> JStr("2024-01-02T10:00:00+00:00"), total_sentences |-> JInt(Len(ss)),
     learned_sentences |-> JInt(Count(ss, "learned")),
     difficult_sentences |-> JInt(Count(ss, "is_difficult"))]

\* the document of a project with the rows given
ExportedDoc(ss, ks, sps) ==
    [id |-> JStr("p1"), name |-> JStr("Les 1"), status |-> JStr("ready"),
     created_at |-> JStr("2024-01-01T10:00:00"),
     updated_at |-> JStr("2024-01-01T10:00:00"), sentences |-> ss, keywords |-> ks,
     speakers |-> sps, progress |-> ExportedProgress(ss)]

EmptyDoc == ExportedDoc(<< >>, << >>, << >>)

FlagValues == {JMissing, JNull, JBool(FALSE), JBool(TRUE)}

CountValues == {JMissing, JNull} \cup {JInt(i) : i \in 0..MaxCount}

TimestampValues == {JMissing, JNull, JStr("")} \cup {JStr(d.s) : d \in Timestamps}

NameValues == {JMissing, JNull, JStr(""), JStr("Les 1"), JStr("Lesson one")}

StatusValues == {JMissing, JNull, JStr(""), JStr("ready"), JStr("error")}

SeqsUpTo(S, n) == UNION {[1..k -> S] : k \in 0..n}

SentenceItems == {ExportedSentence(id, idx) : id \in {"s1", "s2"}, idx \in {0, 1}}

KeywordItems == [id : {"k1", "k2"}, word : {"huis", "boom"}]

SpeakerItems ==
    [id : {JStr("sp1"), JStr("sp2"), JMissing}, label : {"A"},
     display_name : {JNull}, is_manual : {JBool(FALSE), JBool(TRUE)}]

\* one sentence, s1, with the fields given
OneSentence(f) == <<[ExportedSentence("s1", 0) EXCEPT
                        !.learned = f.learned, !.learn_count = f.learn_count,
                        !.is_difficult = f.is_difficult, !.review_count = f.review_count,
                        !.last_reviewed = f.last_reviewed]>>

ExportedFields ==
    [learned |-> JBool(FALSE), learn_count |-> JInt(0), is_difficult |-> JBool(FALSE),
     review_count |-> JInt(0), last_reviewed |-> JNull]

\* The documents tried on each side, in families: each varies one group of
\* fields over all its values and leaves the rest as exported.
LearnDocs ==
    {ExportedDoc(OneSentence([ExportedFields EXCEPT !.learned = a, !.learn_count = b]),
                 << >>, << >>) : a \in FlagValues, b \in CountValues}

ReviewDocs ==
    {ExportedDoc(OneSentence([ExportedFields EXCEPT !.is_difficult = a, !.review_count = b]),
                 << >>, << >>) : a \in FlagValues, b \in CountValues}

TimestampDocs ==
    {[ExportedDoc(OneSentence([ExportedFields EXCEPT !.last_reviewed = a]), << >>, << >>)
        EXCEPT !.created_at = b] : a \in TimestampValues, b \in TimestampValues}

SyncDocs ==
    {[EmptyDoc EXCEPT !.progress.last_sync = a] : a \in TimestampValues}
    \cup {[EmptyDoc EXCEPT !.progress = NoProgress]}

NamedDocs ==
    {[EmptyDoc EXCEPT !.name = a, !.status = b] : a \in NameValues, b \in StatusValues}

SentenceListDocs == {ExportedDoc(ss, << >>, << >>) : ss \in SeqsUpTo(SentenceItems, MaxItems)}

KeywordListDocs == {ExportedDoc(<< >>, ks, << >>) : ks \in SeqsUpTo(KeywordItems, MaxItems)}

SpeakerListDocs == {ExportedDoc(<< >>, << >>, sps) : sps \in SeqsUpTo(SpeakerItems, MaxItems)}

\* one speaker, sp1, with every display name and every is_manual value
SpeakerFieldDocs ==
    {ExportedDoc(<< >>, << >>,
                 <<[id |-> JStr("sp1"), label |-> "A", display_name |-> a, is_manual |-> b]>>) :
         a \in {JNull, JStr("Piet"), JStr("Jan")}, b \in FlagValues}

\* one sentence, learned or not, under a progress block with any totals
StaleProgressDocs ==
    {[ExportedDoc(OneSentence([ExportedFields EXCEPT !.learned = a]), << >>, << >>)
        EXCEPT !.progress = [last_sync |-> b, total_sentences |-> JInt(c),
                             learned_sentences |-> JInt(d),
                             difficult_sentences |-> JInt(e)]] :
         a \in {JBool(FALSE), JBool(TRUE)},
         b \in {JStr("2024-01-01T10:00:00"), JStr("2024-01-02T10:00:00")},
         c \in {0, MaxCount}, d \in {0, MaxCount}, e \in {0, MaxCount}}

\* no sentence, or the sentence s1 with any progress values
OneSidedDocs ==
    {EmptyDoc} \cup
    {ExportedDoc(OneSentence([learned |-> a, learn_count |-> b, is_difficult |-> a,
                              review_count |-> b, last_reviewed |-> c]), << >>, << >>) :
         a \in FlagValues, b \in {JMissing, JNull, JInt(MaxCount)},
         c \in {JMissing, JNull, JStr(""), JStr("2024-01-01T10:00:00")}}

DocFamilies ==
    {LearnDocs, ReviewDocs, TimestampDocs, SyncDocs, NamedDocs, StaleProgressDocs,
     OneSidedDocs,
     SentenceListDocs, KeywordListDocs, SpeakerListDocs, SpeakerFieldDocs}

MergeIdle ==
    /\ local_data = EmptyDoc
    /\ remote_data = EmptyDoc
    /\ merged_data = EmptyDoc
    /\ m_pc = "off"

\* -------------------------------------------------- the local database
\* Tables as maps from primary key to row.  A keyword's key is the id the
\* document gave it (doc) or the uuid4 drawn for it (the n-th one drawn).
DocKey(id) == [doc |-> id, n |-> 0]

UuidKey(n) == [doc |-> "", n |-> n]

EmptyDb ==
    [projects |-> << >>, speakers |-> << >>, sentences |-> << >>, keywords |-> << >>]

\* a row of each table
SpeakerRow(id, project_id, label, display_name, is_manual) ==
    [id |-> id, project_id |-> project_id, label |-> label,
     display_name |-> display_name, is_manual |-> is_manual]

KeywordRow(key, sentence_id, word) == [id |-> key, sentence_id |-> sentence_id, word |-> word]

\* the Session of one _import_project call: the persistent rows it has
\* loaded or would load (tables, with the changes made in memory), the
\* objects added and not flushed (added_*), and the uuid4 values drawn.
\* SessionLocal has autoflush off: a query sees the tables only.
NewSession(db, uuids) ==
    [tables |-> db, added_projects |-> << >>, added_speakers |-> << >>,
     added_sentences |-> << >>, added_keywords |-> << >>, uuids |-> uuids]

\* db.query(T).filter(T.id == id).first() is not None
Exists(table, id) == id \in DOMAIN table

Put(table, id, row) ==
    IF id \in DOMAIN table THEN [table EXCEPT ![id] = row] ELSE table @@ (id :> row)

\* lines 501-512: get or create the project
import_project_row(ses, data) ==
    LET project_id == data.id.s
    IN  IF Exists(ses.tables.projects, project_id)
        THEN [ses EXCEPT !.tables.projects[project_id] =
                 [@ EXCEPT !.name = dict_get(data.name, @),
                           !.status = dict_get(data.status, @)]]
        ELSE [ses EXCEPT !.added_projects =
                 Append(@, [id |-> project_id,
                            name |-> dict_get(data.name, JStr(project_id)),
                            status |-> dict_get(data.status, JStr("ready"))])]

\* a mutation of the import: the local lock is not looked at
import_speaker_unguarded(ses, project_id, sp_data) ==
    LET id == sp_data.id.s
    IN  IF Exists(ses.tables.speakers, id)
        THEN [ses EXCEPT !.tables.speakers[id] =
                 [@ EXCEPT !.display_name = dict_get(sp_data.display_name, JNull),
                           !.is_manual = dict_get(sp_data.is_manual, JBool(FALSE))]]
        ELSE [ses EXCEPT !.added_speakers =
                 Append(@, SpeakerRow(id, project_id, sp_data.label,
                                      dict_get(sp_data.display_name, JNull),
                                      dict_get(sp_data.is_manual, JBool(FALSE))))]

\* lines 515-532: one speaker of the document
import_speaker(ses, project_id, sp_data) ==
    LET id == sp_data.id.s
    IN  IF Exists(ses.tables.speakers, id)
        THEN LET speaker == ses.tables.speakers[id]
             IN  IF ~Truthy(speaker.is_manual)
                    \/ Truthy(dict_get(sp_data.is_manual, JBool(FALSE)))
                 THEN [ses EXCEPT !.tables.speakers[id] =
                          [speaker EXCEPT
                              !.display_name = dict_get(sp_data.display_name, JNull),
                              !.is_manual = dict_get(sp_data.is_manual, JBool(FALSE))]]
                 ELSE ses
        ELSE [ses EXCEPT !.added_speakers =
                 Append(@, SpeakerRow(id, project_id, sp_data.label,
                                      dict_get(sp_data.display_name, JNull),
                                      dict_get(sp_data.is_manual, JBool(FALSE))))]

RECURSIVE import_speakers(_, _, _)
import_speakers(ses, project_id, sp_list) ==
    IF sp_list = << >> THEN ses
    ELSE import_speakers(import_speaker(ses, project_id, Head(sp_list)), project_id,
                         Tail(sp_list))

\* a datetime as the DateTime column keeps it: without its offset
Stored(dt) == [dt EXCEPT !.aware = FALSE, !.s = ""]

\* lines 546-556: last_reviewed of a sentence that exists
updated_last_reviewed(current, lr_str) ==
    IF ~Truthy(lr_str) THEN current
    ELSE LET remote_lr == Stored(_parse_timestamp(lr_str))
         IN  IF ~remote_lr.ok THEN current
             ELSE IF ~current.ok \/ remote_lr.t > current.t THEN remote_lr
             ELSE current

\* lines 536-575: one sentence of the document
import_sentence(ses, project_id, s_data) ==
    LET id == s_data.id
    IN  IF Exists(ses.tables.sentences, id)
        THEN LET sentence == ses.tables.sentences[id]
             IN  [ses EXCEPT !.tables.sentences[id] =
                     [sentence EXCEPT
                         !.learned = dict_get(s_data.learned, @),
                         !.learn_count = dict_get(s_data.learn_count, @),
                         !.is_difficult = dict_get(s_data.is_difficult, @),
                         !.review_count =
                             JInt(Max(py_or(dict_get(s_data.review_count, JInt(0)), JInt(0)).n,
                                      py_or(@, JInt(0)).n)),
                         !.last_reviewed =
                             updated_last_reviewed(@, dict_get(s_data.last_reviewed, JNull))]]
        ELSE [ses EXCEPT !.added_sentences =
                 Append(@, [id |-> id, project_id |-> project_id,
                            idx |-> dict_get(s_data.index, JInt(0)),
                            learned |-> dict_get(s_data.learned, JBool(FALSE)),
                            learn_count |-> dict_get(s_data.learn_count, JInt(0)),
                            is_difficult |-> dict_get(s_data.is_difficult, JBool(FALSE)),
                            review_count |-> dict_get(s_data.review_count, JInt(0)),
                            last_reviewed |->
                                Stored(_parse_timestamp(
                                    dict_get(s_data.last_reviewed, JNull)))])]

\* line 573 raises ValueError: a new sentence whose last_reviewed does not parse
new_sentence_raises(db, s_data) ==
    /\ ~Exists(db.sentences, s_data.id)
    /\ Truthy(dict_get(s_data.last_reviewed, JNull))
    /\ ~_parse_timestamp(dict_get(s_data.last_reviewed, JNull)).ok

RECURSIVE import_sentences(_, _, _)
import_sentences(ses, project_id, s_list) ==
    IF s_list = << >> THEN ses
    ELSE import_sentences(import_sentence(ses, project_id, Head(s_list)), project_id,
                          Tail(s_list))

\* lines 578-588: the top-level keywords
RECURSIVE import_keywords(_, _)
import_keywords(ses, k_list) ==
    IF k_list = << >> THEN ses
    ELSE LET k_data == Head(k_list)
         IN  import_keywords(
                 IF Exists(ses.tables.keywords, DocKey(k_data.id)) THEN ses
                 ELSE [ses EXCEPT !.added_keywords =
                          Append(@, KeywordRow(DocKey(k_data.id), k_data.sentence_id,
                                               k_data.word))],
                 Tail(k_list))

\* lines 598-601: a stored keyword of the sentence with the word
ExistingKeyword(table, sentence_id, word) ==
    \E key \in DOMAIN table :
        table[key].sentence_id = sentence_id /\ table[key].word = word

\* lines 596-610: the nested keywords of one sentence that exists
RECURSIVE import_nested(_, _, _)
import_nested(ses, sentence_id, k_list) ==
    IF k_list = << >> THEN ses
    ELSE import_nested(
             IF ExistingKeyword(ses.tables.keywords, sentence_id, Head(k_list).word) THEN ses
             ELSE [ses EXCEPT
                      !.added_keywords =
                          Append(@, KeywordRow(UuidKey(ses.uuids + 1), sentence_id,
                                               Head(k_list).word)),
                      !.uuids = @ + 1],
             sentence_id, Tail(k_list))

\* lines 591-610: the nested keywords of every sentence of the document
RECURSIVE import_all_nested(_, _)
import_all_nested(ses, s_list) ==
    IF s_list = << >> THEN ses
    ELSE import_all_nested(
             IF Exists(ses.tables.sentences, Head(s_list).id)
             THEN import_nested(ses, Head(s_list).id, Head(s_list).keywords)
             ELSE ses,
             Tail(s_list))

\* _import_project up to the commit
import_session(db, data, uuids) ==
    LET project_id == data.id.s
        s1 == import_project_row(NewSession(db, uuids), data)
        s2 == import_speakers(s1, project_id, data.speakers)
        s3 == import_sentences(s2, project_id, data.sentences)
        s4 == import_keywords(s3, data.keywords)
    IN  import_all_nested(s4, data.sentences)

\* ids of the rows a list adds
AddedIds(rows) == {rows[i].id : i \in 1..Len(rows)}

Repeats(rows) == \E i, j \in 1..Len(rows) : i # j /\ rows[i].id = rows[j].id

\* db.commit() raises IntegrityError: a primary key twice, or a keyword
\* whose sentence is neither stored nor added
commit_raises(ses) ==
    \/ Repeats(ses.added_speakers)
    \/ Repeats(ses.added_sentences)
    \/ Repeats(ses.added_keywords)
    \/ \E i \in 1..Len(ses.added_keywords) :
          ses.added_keywords[i].sentence_id
              \notin DOMAIN ses.tables.sentences \cup AddedIds(ses.added_sentences)

RECURSIVE insert_rows(_, _)
insert_rows(table, rows) ==
    IF rows = << >> THEN table
    ELSE insert_rows(Put(table, Head(rows).id, Head(rows)), Tail(rows))

\* db.commit(): the changed rows written, the added rows inserted
commit(ses) ==
    [projects |-> insert_rows(ses.tables.projects, ses.added_projects),
     speakers |-> insert_rows(ses.tables.speakers, ses.added_speakers),
     sentences |-> insert_rows(ses.tables.sentences, ses.added_sentences),
     keywords |-> insert_rows(ses.tables.keywords, ses.added_keywords)]

\* variant of session_closed: what the session held is written on close
session_closed_flushing(db, ses) ==
    [projects |-> insert_rows(ses.tables.projects, ses.added_projects),
     speakers |-> insert_rows(ses.tables.speakers, ses.added_speakers),
     sentences |-> insert_rows(ses.tables.sentences, ses.added_sentences),
     keywords |-> insert_rows(ses.tables.keywords, ses.added_keywords)]

\* db.close() on a session that was not committed (download_from_drive,
\* lines 481-482; SessionLocal has autocommit and autoflush off): the
\* changed rows and the added objects are dropped, the tables are as before
session_closed(db, ses) == db

\* _import_project raises
import_raises(db, data) ==
    \/ \E i \in 1..Len(data.sentences) : new_sentence_raises(db, data.sentences[i])
    \/ commit_raises(import_session(db, data, 0))

\* _import_project, where it returns: the database after it
_import_project(db, data, uuids) == commit(import_session(db, data, uuids))

\* ------------------------------------------------- documents to import
Words == {"huis", "boom"}

\* a keyword of a per-sentence list
NestedItems == [word : Words]

\* a keyword of the top-level list
TopKeywordItems == [id : {"k1", "k2"}, word : Words, sentence_id : {"s1", "s2"}]

SentenceWith(id, ks) == [ExportedSentence(id, 0) EXCEPT !.keywords = ks]

\* the sentences s1 and s2, in order, with keywords in the nested lists only
NestedDocs ==
    {ExportedDoc(<<SentenceWith("s1", a)>>, << >>, << >>) :
         a \in SeqsUpTo(NestedItems, MaxItems)}
    \cup {ExportedDoc(<<SentenceWith("s1", a), SentenceWith("s2", b)>>, << >>, << >>) :
              a \in SeqsUpTo(NestedItems, MaxItems), b \in SeqsUpTo(NestedItems, MaxItems)}

\* the sentence s1 with top-level keywords, in its nested list or not
TopKeywordDocs ==
    {ExportedDoc(<<SentenceWith("s1", a)>>, ks, << >>) :
         a \in SeqsUpTo(NestedItems, 1), ks \in SeqsUpTo(TopKeywordItems, MaxItems)}

IdentifiedSpeakerDocs == {d \in SpeakerListDocs :
                             \A i \in 1..Len(d.speakers) : d.speakers[i].id # JMissing}

ImportFamilies ==
    {NestedDocs, TopKeywordDocs, SentenceListDocs, IdentifiedSpeakerDocs,
     LearnDocs, ReviewDocs, TimestampDocs, NamedDocs}

ImportDocs == {d \in UNION ImportFamilies : Truthy(d.id)}

\* the sentence s1 as the processor stored it
StoredSentence(id) ==
    [id |-> id, project_id |-> "p1", idx |-> JInt(0), learned |-> JBool(FALSE),
     learn_count |-> JInt(0), is_difficult |-> JBool(FALSE), review_count |-> JInt(0),
     last_reviewed |-> NoDatetime]

\* the project p1 processed locally: its sentence s1, without or with a
\* keyword and a speaker
ProcessedDb ==
    [EmptyDb EXCEPT
        !.projects = "p1" :> [id |-> "p1", name |-> JStr("Les 1"), status |-> JStr("ready")],
        !.sentences = "s1" :> StoredSentence("s1")]

ExplainedDb ==
    [ProcessedDb EXCEPT
        !.keywords = DocKey("k1") :> KeywordRow(DocKey("k1"), "s1", "huis"),
        !.speakers = "sp1" :> SpeakerRow("sp1", "p1", "A", JStr("Piet"), JBool(TRUE))]

\* the project p1 transcribed and waiting for the speaker identification
IdentifyingDb ==
    [ProcessedDb EXCEPT
        !.projects["p1"].status = JStr("identifying"),
        !.speakers = "sp1" :> SpeakerRow("sp1", "p1", "A", JNull, JBool(FALSE))]

InitialDbs == {EmptyDb, ProcessedDb, ExplainedDb, IdentifyingDb}

\* the uuid4 values drawn so far are those of the stored keywords
DrawnUuids(db) ==
    LET ns == {key.n : key \in DOMAIN db.keywords}
    IN  IF ns = {} THEN 0 ELSE CHOOSE n \in ns : \A m \in ns : m <= n

ImportIdle ==
    /\ database = EmptyDb
    /\ snapshot = EmptyDoc
    /\ imports = 0
    /\ i_pc = "off"

\* ------------------------------------------------------ Google Drive
\* The Dutch Learn folder: its project folders in listing order, each with
\* its name and the names of its files in listing order.  Drive does not
\* keep names unique.
ProjectIds == {"p1", "p2"}

FileNames == {"project.json", "audio.mp3"}

DriveFolder(name, files) == [name |-> name, files |-> files]

\* _find_folder: the first folder with the name, 0 for None
_find_folder(folders, name) ==
    IF \E i \in 1..Len(folders) : folders[i].name = name
    THEN CHOOSE i \in 1..Len(folders) :
             /\ folders[i].name = name
             /\ \A j \in 1..(i - 1) : folders[j].name # name
    ELSE 0

\* lines 277-279: the folder of the project, created when not found
project_folder(folders, name) ==
    IF _find_folder(folders, name) = 0
    THEN Append(folders, DriveFolder(name, << >>))
    ELSE folders

\* a file of the name is listed in the folder
HasFile(folder, file) == \E k \in 1..Len(folder.files) : folder.files[k] = file

\* a file created at every upload
upload_file_always_creates(folders, name, file) ==
    LET i == _find_folder(folders, name)
    IN  [folders EXCEPT ![i].files = Append(@, file)]

\* _upload_file: the file created in the folder, or the first one of the
\* name updated there
_upload_file(folders, name, file) ==
    LET i == _find_folder(folders, name)
    IN  IF HasFile(folders[i], file) THEN folders
        ELSE [folders EXCEPT ![i].files = Append(@, file)]

\* the steps of one pass of the upload loop that can raise
UploadSteps == {"export", "find_folder", "create_folder", "write_json", "upload_json",
                "upload_audio"}

\* the Drive after a pass of the upload loop that raised at the step
\* (or at none: "ok"), for a project with or without a local audio file
drive_after_upload(folders, name, step, has_audio) ==
    IF step \in {"export", "find_folder", "create_folder"} THEN folders
    ELSE IF step \in {"write_json", "upload_json"} THEN project_folder(folders, name)
    ELSE IF step = "upload_audio" \/ ~has_audio
         THEN _upload_file(project_folder(folders, name), name, "project.json")
    ELSE _upload_file(_upload_file(project_folder(folders, name), name, "project.json"),
                      name, "audio.mp3")

\* the steps of one pass of the download loop that can raise
DownloadSteps == {"list_files", "download_json", "export", "merge", "import",
                  "download_audio"}

NoResults ==
    [uploaded |-> << >>, skipped |-> << >>, downloaded |-> << >>, merged |-> << >>,
     new |-> << >>, errors |-> << >>]

\* results[list].append({'id': id, ...})
Record(res, list, id) == [res EXCEPT ![list] = Append(@, id)]

\* lines 265-269: the projects the upload query returns
upload_query(local, ids) ==
    {p \in ProjectIds : local[p] = "ready" /\ (ids = {} \/ p \in ids)}

\* lines 408-411: the folders the download loop visits, in listing order
RECURSIVE download_list(_, _, _)
download_list(folders, ids, i) ==
    IF i > Len(folders) THEN << >>
    ELSE IF ids = {} \/ folders[i].name \in ids
         THEN <<i>> \o download_list(folders, ids, i + 1)
         ELSE download_list(folders, ids, i + 1)

\* the lists of a set, in any order
Permutations_of(S) ==
    {f \in [1..Cardinality(S) -> S] : \A i, j \in 1..Cardinality(S) : i # j => f[i] # f[j]}

SyncIdle ==
    /\ sync_pc = "off"
    /\ drive = << >>
    /\ local_projects = [p \in ProjectIds |-> "none"]
    /\ project_ids = {}
    /\ projects = << >>
    /\ pos = 0
    /\ sync_calls = 0
    /\ sync_results = NoResults

\* ------------------------------------------------------------ the pipeline
explanation_batch_size == 5

max_retries == 3

\* settings.max_sentence_words, read at processor.py:154
max_sentence_words == MaxBudget

Stages == {"extract", "transcribe", "identify", "explain"}

NoException == [stage |-> "none", kind |-> "none"]

None == ""

\* create_project: the row as the upload endpoint commits it
ProjectCreated ==
    /\ status = "pending"
    /\ error_message = None
    /\ audio_file = None
    /\ total_sentences = 0
    /\ processed_sentences = 0
    /\ speakers = << >>
    /\ sentences = << >>
    /\ keywords = {}

FullIdle ==
    /\ endpoint = "download"
    /\ full_pc = "off"
    /\ local_before = EmptyDb
    /\ remote_before = EmptyDoc
    /\ upload_result = "none"
    /\ download_result = "none"

NotRead == 0 - 1

ProgressIdle == shown = NotRead

RetryIdle ==
    /\ r_fn = "transcribe"
    /\ r_max = 0
    /\ r_delay = 0
    /\ r_attempt = 0
    /\ r_calls = 0
    /\ r_waits = << >>
    /\ r_pc = "off"
    /\ r_raised = "none"

\* no file has been uploaded
NoFile == [key |-> "none", items |-> << >>]

UploadIdle ==
    /\ import_data = NoFile
    /\ project_table = << >>
    /\ imported_projects = << >>
    /\ uploads = 0

MoreIdle == ProgressIdle /\ RetryIdle /\ FullIdle /\ UploadIdle

RunIdle ==
    /\ attempt = 0
    /\ batch_i = 0
    /\ calls = [c \in Stages |-> 0]
    /\ exc = NoException
    /\ ident = "none"
    /\ raised = "none"

\* ---- what the collaborators can answer
Kind(u, q) == [up |-> u, p |-> q]

\* "Hallo daar."
Text2 == MkText(<<Kind(TRUE, "n"), Kind(FALSE, "s")>>)

\* "Een twee drie. Vier vijf zes."
Text6 == MkText(<<Kind(TRUE, "n"), Kind(FALSE, "n"), Kind(FALSE, "s"),
                  Kind(TRUE, "n"), Kind(FALSE, "n"), Kind(FALSE, "s")>>)

\* "Een twee drie. Vier vijf zes. Zeven acht negen."
Text9 == MkText(<<Kind(TRUE, "n"), Kind(FALSE, "n"), Kind(FALSE, "s"),
                  Kind(TRUE, "n"), Kind(FALSE, "n"), Kind(FALSE, "s"),
                  Kind(TRUE, "n"), Kind(FALSE, "n"), Kind(FALSE, "s")>>)

\* "een twee drie vier," with a budget below 4: _split_on_clauses does not return
TextComma == MkText(<<Kind(FALSE, "n"), Kind(FALSE, "n"), Kind(FALSE, "n"), Kind(FALSE, "c")>>)

PipelineTexts == {Text2, Text6, Text9, TextComma}

MaxUtterances == 2

\* TranscriptionResult.utterances
TranscribedUtterances ==
    UNION {[1..n -> {MkUtterance(t, Len(t), l) : t \in PipelineTexts, l \in Speakers}]
           : n \in 0..MaxUtterances}

\* _parse_transcript: one SpeakerInfo per label of the utterances
speaker_labels(utterances) == {utterances[k].speaker_label : k \in 1..Len(utterances)}

AiNames == {"Jan de Vries"}

UserNames == {"Piet"}

\* the dicts SpeakerIdentifier.identify can return
IdentifyResults == UNION {[ls -> AiNames] : ls \in SUBSET Speakers}

\* ---- Processor
\* variant: the 'identifying' status is never written
update_status_without_identifying(new_status, message) ==
    /\ status' = IF new_status = "identifying" THEN status ELSE new_status
    /\ error_message' = IF message # None THEN message ELSE error_message

\* variant: the message is dropped
update_status_without_message(new_status, message) ==
    /\ status' = new_status
    /\ error_message' = error_message

\* _update_project_status
_update_project_status(new_status, message) ==
    /\ status' = new_status
    /\ error_message' = IF message # None THEN message ELSE error_message

\* variant: the error is recorded but not re-raised
handle_error_swallowed(stage, kind, message) ==
    /\ _update_project_status("error", message)
    /\ exc' = [stage |-> stage, kind |-> kind]
    /\ raised' = "none"
    /\ pc' = "done"

\* the two except clauses of process_project
handle_error(stage, kind, message) ==
    /\ _update_project_status("error", message)
    /\ exc' = [stage |-> stage, kind |-> kind]
    /\ raised' = "ProcessingError"
    /\ pc' = "done"

\* _init_api_services raises (a collaborator without its API key): caught
\* by the generic clause before any stage has started
InitServicesRaises ==
    /\ pc = "queued"
    /\ handle_error("init", "Exception", "Unexpected error")
    /\ UNCHANGED <<svars, syncvars, audio_file, total_sentences, processed_sentences, speakers,
                   sentences, keywords, attempt, batch_i, calls, ident>>

\* process_project up to the await of the extractor
Begin ==
    /\ pc = "queued"
    /\ _update_project_status("extracting", None)
    /\ calls' = [calls EXCEPT !["extract"] = @ + 1]
    /\ pc' = "extract"
    /\ UNCHANGED <<svars, syncvars, audio_file, total_sentences, processed_sentences, speakers,
                   sentences, keywords, attempt, batch_i, exc, ident, raised>>

\* _extract_audio after the await: the audio path is committed
ExtractReturns ==
    /\ pc = "extract"
    /\ audio_file' = "project.mp3"
    /\ pc' = "extracted"
    /\ UNCHANGED <<svars, syncvars, status, error_message, total_sentences, processed_sentences,
                   speakers, sentences, keywords, attempt, batch_i, calls, exc, ident, raised>>

ExtractRaises ==
    /\ pc = "extract"
    /\ \/ handle_error("extract", "AudioExtractionError", "Audio extraction failed")
       \/ handle_error("extract", "Exception", "Unexpected error")
    /\ UNCHANGED <<svars, syncvars, audio_file, total_sentences, processed_sentences, speakers,
                   sentences, keywords, attempt, batch_i, calls, ident>>

\* stage 2 up to the first await of transcribe_with_retry
SetTranscribing ==
    /\ pc = "extracted"
    /\ _update_project_status("transcribing", None)
    /\ attempt' = 0
    /\ calls' = [calls EXCEPT !["transcribe"] = @ + 1]
    /\ pc' = "transcribe"
    /\ UNCHANGED <<svars, syncvars, audio_file, total_sentences, processed_sentences, speakers,
                   sentences, keywords, batch_i, exc, ident, raised>>

\* the Speaker rows _transcribe_audio adds
new_speakers(labels) ==
    [l \in labels |-> [display_name |-> None, evidence |-> "utterances", is_manual |-> FALSE]]

\* variant of new_sentences: idx counted from 1
new_sentences_from_one(utterances) ==
    [k \in 1..Len(utterances) |->
        [idx |-> k, text |-> utterances[k].text,
         speaker_id |-> utterances[k].speaker_label, explained |-> FALSE]]

\* the Sentence rows _transcribe_audio adds
new_sentences(utterances) ==
    [k \in 1..Len(utterances) |->
        [idx |-> k - 1, text |-> utterances[k].text,
         speaker_id |-> utterances[k].speaker_label, explained |-> FALSE]]

\* transcribe_with_retry returns; the utterances are split and saved
TranscribeReturns ==
    /\ pc = "transcribe"
    /\ \E us \in TranscribedUtterances :
          /\ \A k \in 1..Len(us) : split_raises(us[k], max_sentence_words) = FALSE
          /\ speakers' = new_speakers(speaker_labels(us))
          /\ sentences' = new_sentences(split_utterances(us, max_sentence_words))
          /\ total_sentences' = Len(split_utterances(us, max_sentence_words))
    /\ processed_sentences' = 0
    /\ pc' = "saved"
    /\ UNCHANGED <<svars, syncvars, status, error_message, audio_file, keywords, attempt, batch_i,
                   calls, exc, ident, raised>>

\* transcribe raised TranscriptionError and attempts are left: sleep, retry
TranscribeRetries ==
    /\ pc = "transcribe"
    /\ attempt < max_retries - 1
    /\ attempt' = attempt + 1
    /\ calls' = [calls EXCEPT !["transcribe"] = @ + 1]
    /\ UNCHANGED <<svars, syncvars, rowvars, pc, batch_i, exc, ident, raised>>

\* the stage raises: the last attempt fails, the commit of the rows fails
\* (rolled back), or anything else is raised (FileNotFoundError from
\* transcribe, the splitter's RecursionError, a missing setting)
TranscribeRaises ==
    /\ pc = "transcribe"
    /\ \/ /\ attempt >= max_retries - 1
          /\ handle_error("transcribe", "TranscriptionError", "Transcription failed")
       \/ handle_error("transcribe", "SaveError", "Failed to save transcription")
       \/ handle_error("transcribe", "Exception", "Unexpected error")
    /\ UNCHANGED <<svars, syncvars, audio_file, total_sentences, processed_sentences, speakers,
                   sentences, keywords, attempt, batch_i, calls, ident>>

\* stage 3 up to the await of the identifier, or past it when
\* _identify_speakers returns early
SetIdentifying ==
    /\ pc = "saved"
    /\ _update_project_status("identifying", None)
    /\ IF DOMAIN speakers = {} \/ sentences = << >>
       THEN /\ pc' = "identified"
            /\ ident' = "skipped"
            /\ calls' = calls
       ELSE /\ pc' = "identify"
            /\ ident' = "none"
            /\ calls' = [calls EXCEPT !["identify"] = @ + 1]
    /\ UNCHANGED <<svars, syncvars, audio_file, total_sentences, processed_sentences, speakers,
                   sentences, keywords, attempt, batch_i, exc, raised>>

\* the loop of _identify_speakers over the speakers, and its commit
identified(spk, results) ==
    [l \in DOMAIN spk |->
        IF l \in DOMAIN results
        THEN [spk[l] EXCEPT !.display_name = results[l], !.evidence = "identification"]
        ELSE spk[l]]

IdentifyReturns ==
    /\ pc = "identify"
    /\ \E results \in IdentifyResults : speakers' = identified(speakers, results)
    /\ ident' = "returned"
    /\ pc' = "identified"
    /\ UNCHANGED <<svars, syncvars, status, error_message, audio_file, total_sentences,
                   processed_sentences, sentences, keywords, attempt, batch_i, calls,
                   exc, raised>>

\* variant: the exception of the identifier reaches the top level
IdentifyRaises_blocking ==
    /\ pc = "identify"
    /\ ident' = "raised"
    /\ handle_error("identify", "Exception", "Unexpected error")
    /\ UNCHANGED <<svars, syncvars, audio_file, total_sentences, processed_sentences, speakers,
                   sentences, keywords, attempt, batch_i, calls>>

\* the identifier raises: logged, nothing else
IdentifyRaises ==
    /\ pc = "identify"
    /\ ident' = "raised"
    /\ pc' = "identified"
    /\ UNCHANGED <<svars, syncvars, rowvars, attempt, batch_i, calls, exc, raised>>

\* stage 4 up to the first await of explain_with_retry, or past the stage
\* when there is no sentence
SetExplaining ==
    /\ pc = "identified"
    /\ _update_project_status("explaining", None)
    /\ batch_i' = 0
    /\ attempt' = 0
    /\ IF sentences = << >>
       THEN pc' = "explained" /\ calls' = calls
       ELSE pc' = "explain" /\ calls' = [calls EXCEPT !["explain"] = @ + 1]
    /\ UNCHANGED <<svars, syncvars, audio_file, total_sentences, processed_sentences, speakers,
                   sentences, keywords, exc, ident, raised>>

\* variant: without the min()
processed_after_unclamped(i, n) == i + explanation_batch_size

\* project.processed_sentences after the batch that starts at i
processed_after(i, n) == Min(i + explanation_batch_size, n)

\* variant of batch: a batch starts with the last sentence of the one before
batch_overlapping(i, n) == {k \in 1..n : k >= i /\ k <= i + explanation_batch_size}

\* the batch sentences[i : i + batch_size], as 1-based positions
batch(i, n) == {k \in 1..n : k > i /\ k <= i + explanation_batch_size}

\* explain_with_retry returns for the batch at batch_i: rows updated and
\* committed; then the next batch is requested, or the loop ends
ExplainReturns ==
    /\ pc = "explain"
    /\ sentences' = [k \in 1..Len(sentences) |->
                        IF k \in batch(batch_i, Len(sentences))
                        THEN [sentences[k] EXCEPT !.explained = TRUE]
                        ELSE sentences[k]]
    /\ \E with_keywords \in {{}, {sentences[k].idx : k \in batch(batch_i, Len(sentences))}} :
          keywords' = keywords \cup with_keywords
    /\ processed_sentences' = processed_after(batch_i, Len(sentences))
    /\ IF batch_i + explanation_batch_size < Len(sentences)
       THEN /\ batch_i' = batch_i + explanation_batch_size
            /\ attempt' = 0
            /\ calls' = [calls EXCEPT !["explain"] = @ + 1]
            /\ pc' = "explain"
       ELSE /\ pc' = "explained"
            /\ UNCHANGED <<batch_i, attempt, calls>>
    /\ UNCHANGED <<svars, syncvars, status, error_message, audio_file, total_sentences, speakers,
                   exc, ident, raised>>

ExplainRetries ==
    /\ pc = "explain"
    /\ attempt < max_retries - 1
    /\ attempt' = attempt + 1
    /\ calls' = [calls EXCEPT !["explain"] = @ + 1]
    /\ UNCHANGED <<svars, syncvars, rowvars, pc, batch_i, exc, ident, raised>>

\* variant: the failure of a batch discards the progress made so far
ExplainRaises_rollback ==
    /\ pc = "explain"
    /\ \/ /\ attempt >= max_retries - 1
          /\ handle_error("explain", "ExplanationError", "Explanation generation failed")
       \/ handle_error("explain", "Exception", "Unexpected error")
    /\ processed_sentences' = 0
    /\ keywords' = {}
    /\ UNCHANGED <<svars, syncvars, audio_file, total_sentences, speakers,
                   sentences, attempt, batch_i, calls, ident>>

\* explain_with_retry raises ExplanationError after its last attempt, or
\* anything else is raised in the stage
ExplainRaises ==
    /\ pc = "explain"
    /\ \/ /\ attempt >= max_retries - 1
          /\ handle_error("explain", "ExplanationError", "Explanation generation failed")
       \/ handle_error("explain", "Exception", "Unexpected error")
    /\ UNCHANGED <<svars, syncvars, audio_file, total_sentences, processed_sentences, speakers,
                   sentences, keywords, attempt, batch_i, calls, ident>>

\* stage 5
SetReady ==
    /\ pc = "explained"
    /\ _update_project_status("ready", None)
    /\ pc' = "done"
    /\ UNCHANGED <<svars, syncvars, audio_file, total_sentences, processed_sentences, speakers,
                   sentences, keywords, attempt, batch_i, calls, exc, ident, raised>>

\* ---- routers/projects.py
\* the coroutine is suspended in an await (or not running): a request
\* handler can run
Suspended == pc \in {"queued", "extract", "transcribe", "identify", "explain", "done"}

\* PUT /{project_id}/speakers/{speaker_id}
update_speaker(l, name) ==
    /\ Suspended
    /\ l \in DOMAIN speakers
    /\ speakers' = [speakers EXCEPT ![l].display_name = name, ![l].is_manual = TRUE]
    /\ UNCHANGED <<svars, syncvars, status, error_message, audio_file, total_sentences,
                   processed_sentences, sentences, keywords, runvars>>

UpdateSpeaker == \E l \in Speakers : \E name \in UserNames : update_speaker(l, name)

Init ==
    /\ utt = MkUtterance(<< >>, 0, "A")
    /\ max_words = max_sentence_words
    /\ s_pc = "off"
    /\ final_texts = << >>
    /\ merged_texts = << >>
    /\ result = << >>
    /\ ProjectCreated
    /\ pc = "queued"
    /\ RunIdle
    /\ MoreIdle
    /\ MergeIdle
    /\ ImportIdle
    /\ SyncIdle

Next ==
    \/ InitServicesRaises
    \/ Begin
    \/ ExtractReturns
    \/ ExtractRaises
    \/ SetTranscribing
    \/ TranscribeReturns
    \/ TranscribeRetries
    \/ TranscribeRaises
    \/ SetIdentifying
    \/ IdentifyReturns
    \/ IdentifyRaises
    \/ SetExplaining
    \/ ExplainReturns
    \/ ExplainRetries
    \/ ExplainRaises
    \/ SetReady
    \/ UpdateSpeaker

Spec == Init /\ [][Next]_vars

\* ------------------------------------------------- splitter state machine

\* numbers of word timestamps tried for a text of n words: none, one fewer,
\* as many, one more
WordCounts(n) == {k \in {0, n - 1, n, n + 1} : k >= 0}

InitSplit ==
    /\ \E t \in Texts : \E k \in WordCounts(Len(t)) : \E l \in Speakers :
           utt = MkUtterance(t, k, l)
    /\ max_words \in 1..MaxBudget
    /\ s_pc = "input"
    /\ final_texts = << >>
    /\ merged_texts = << >>
    /\ result = << >>
    /\ ProjectCreated
    /\ pc = "off"
    /\ RunIdle
    /\ MoreIdle
    /\ MergeIdle
    /\ ImportIdle
    /\ SyncIdle

\* _split_utterance returns
SplitReturns ==
    /\ s_pc = "input"
    /\ split_raises(utt, max_words) = FALSE
    /\ final_texts' = final_texts_of(utt.text, max_words)
    /\ merged_texts' = _merge_short_segments(final_texts_of(utt.text, max_words))
    /\ result' = _split_utterance(utt, max_words)
    /\ s_pc' = "returned"
    /\ UNCHANGED <<utt, max_words, rowvars, runvars, syncvars>>

\* _split_utterance raises RecursionError
SplitRaises ==
    /\ s_pc = "input"
    /\ split_raises(utt, max_words) = TRUE
    /\ s_pc' = "raised"
    /\ UNCHANGED <<utt, max_words, final_texts, merged_texts, result, rowvars, runvars,
                   syncvars>>

NextSplit == SplitReturns \/ SplitRaises

SpecSplit == InitSplit /\ [][NextSplit]_vars

\* ------------------------------------------------ merger state machine
InitMerge ==
    /\ \E F \in DocFamilies : local_data \in F /\ remote_data \in F
    /\ merged_data = EmptyDoc
    /\ m_pc = "input"
    /\ utt = MkUtterance(<< >>, 0, "A")
    /\ max_words = max_sentence_words
    /\ s_pc = "off"
    /\ final_texts = << >>
    /\ merged_texts = << >>
    /\ result = << >>
    /\ ProjectCreated
    /\ pc = "off"
    /\ RunIdle
    /\ MoreIdle
    /\ ImportIdle
    /\ SyncIdle

\* ProgressMerger.merge returns
MergeReturns ==
    /\ m_pc = "input"
    /\ ~merge_raises(local_data, remote_data)
    /\ \E order \in Orders(all_ids(local_data.sentences, remote_data.sentences)) :
           /\ merged_data' = merge(local_data, remote_data, order)
           /\ local_data' = input_after("local", local_data, remote_data, order)
           /\ remote_data' = input_after("remote", local_data, remote_data, order)
    /\ m_pc' = "returned"
    /\ UNCHANGED <<svars, rowvars, runvars, morevars, ivars, yvars>>

\* ProgressMerger.merge raises TypeError
MergeRaises ==
    /\ m_pc = "input"
    /\ merge_raises(local_data, remote_data)
    /\ m_pc' = "raised"
    /\ UNCHANGED <<local_data, remote_data, merged_data, svars, rowvars, runvars, morevars, ivars, yvars>>

NextMerge == MergeReturns \/ MergeRaises

SpecMerge == InitMerge /\ [][NextMerge]_vars

\* ------------------------------------------------ import state machine
\* _import_project called with the same document again and again, each call
\* on a session of its own (download_from_drive, lines 415 and 482-483).
InitImport ==
    /\ database \in InitialDbs
    /\ snapshot \in ImportDocs
    /\ imports = 0
    /\ i_pc = "ready"
    /\ utt = MkUtterance(<< >>, 0, "A")
    /\ max_words = max_sentence_words
    /\ s_pc = "off"
    /\ final_texts = << >>
    /\ merged_texts = << >>
    /\ result = << >>
    /\ ProjectCreated
    /\ pc = "off"
    /\ RunIdle
    /\ MoreIdle
    /\ MergeIdle
    /\ SyncIdle

\* _import_project returns: the session is committed
ImportReturns ==
    /\ i_pc = "ready"
    /\ imports < MaxImports
    /\ ~import_raises(database, snapshot)
    /\ database' = _import_project(database, snapshot, DrawnUuids(database))
    /\ imports' = imports + 1
    /\ UNCHANGED <<snapshot, i_pc, svars, rowvars, runvars, morevars, mvars, yvars>>

\* _import_project raises: the session is closed without a commit, and the
\* except clause of the download loop appends the project to errors
ImportRaises ==
    /\ i_pc = "ready"
    /\ imports < MaxImports
    /\ import_raises(database, snapshot)
    /\ database' = session_closed(database,
                                  import_session(database, snapshot, DrawnUuids(database)))
    /\ sync_results' = Record(sync_results, "errors", snapshot.id.s)
    /\ i_pc' = "raised"
    /\ UNCHANGED <<snapshot, imports, svars, rowvars, runvars, morevars, mvars,
                   sync_pc, drive, local_projects, project_ids, projects, pos, sync_calls>>

\* a mutation of the endpoint: the name is stored, the lock is not set
renamed_unlocked(table, id, name) == [table EXCEPT ![id].display_name = JStr(name)]

\* projects.py lines 603-605: the speaker named by the user
renamed(table, id, name) ==
    [table EXCEPT ![id].display_name = JStr(name), ![id].is_manual = JBool(TRUE)]

\* PUT /{project_id}/speakers/{speaker_id} between two imports
SpeakerRenamed ==
    /\ i_pc = "ready"
    /\ \E id \in DOMAIN database.speakers : \E name \in UserNames :
           database' = [database EXCEPT !.speakers = renamed(@, id, name)]
    /\ UNCHANGED <<snapshot, imports, i_pc, svars, rowvars, runvars, morevars, mvars, yvars>>

\* processor.py lines 235-245 on the stored speakers
identified_rows(table, results) ==
    [id \in DOMAIN table |->
        IF table[id].label \in DOMAIN results
        THEN [table[id] EXCEPT !.display_name = JStr(results[table[id].label])]
        ELSE table[id]]

\* the identification stage of the project commits between two imports
SpeakersIdentified ==
    /\ i_pc = "ready"
    /\ \E id \in DOMAIN database.projects :
           database.projects[id].status = JStr("identifying")
    /\ \E results \in IdentifyResults :
           database' = [database EXCEPT !.speakers = identified_rows(@, results)]
    /\ UNCHANGED <<snapshot, imports, i_pc, svars, rowvars, runvars, morevars, mvars, yvars>>

NextImport == ImportReturns \/ ImportRaises \/ SpeakerRenamed \/ SpeakersIdentified

SpecImport == InitImport /\ [][NextImport]_vars

\* -------------------------------------------------- sync state machine
\* upload_to_drive or download_from_drive called once.  project_ids = {} is
\* None or the empty list: no selection.
InitSync ==
    /\ sync_pc \in {"call_upload", "call_download"}
    /\ drive \in SeqsUpTo({DriveFolder(n, f) : n \in ProjectIds,
                              f \in {<< >>, <<"project.json">>,
                                     <<"project.json", "audio.mp3">>}}, MaxFolders)
    /\ local_projects \in [ProjectIds -> {"none", "ready", "error"}]
    /\ project_ids \in {{}, {"p1"}, ProjectIds}
    /\ projects = << >>
    /\ pos = 0
    /\ sync_calls = 1
    /\ sync_results = NoResults
    /\ utt = MkUtterance(<< >>, 0, "A")
    /\ max_words = max_sentence_words
    /\ s_pc = "off"
    /\ final_texts = << >>
    /\ merged_texts = << >>
    /\ result = << >>
    /\ ProjectCreated
    /\ pc = "off"
    /\ RunIdle
    /\ MoreIdle
    /\ MergeIdle
    /\ ImportIdle

\* lines 260-269: the Drive folder is found or created and the projects
\* are queried, or one of the two raises
UploadStarts ==
    /\ sync_pc = "call_upload"
    /\ \/ /\ \E order \in Permutations_of(upload_query(local_projects, project_ids)) :
                projects' = order
          /\ sync_pc' = "uploading"
       \/ /\ sync_pc' = "raised"
          /\ UNCHANGED projects
    /\ UNCHANGED <<drive, local_projects, project_ids, pos, sync_calls, sync_results,
                   svars, rowvars, runvars, morevars, mvars, ivars>>

\* lines 271-302 with a project whose pass raises: the project goes to errors
UploadProject_aborts ==
    /\ sync_pc = "uploading"
    /\ pos < Len(projects)
    /\ \E step \in UploadSteps \cup {"ok"}, has_audio \in BOOLEAN :
          LET id == projects[pos + 1]
          IN  /\ step = "create_folder" => _find_folder(drive, id) = 0
              /\ step = "upload_audio" => has_audio
              /\ drive' = drive_after_upload(drive, id, step, has_audio)
              /\ IF step = "ok"
                 THEN /\ sync_results' = Record(sync_results, "uploaded", id)
                      /\ sync_pc' = sync_pc
                 ELSE /\ sync_results' = Record(sync_results, "errors", id)
                      /\ sync_pc' = "raised"
    /\ pos' = pos + 1
    /\ UNCHANGED <<local_projects, project_ids, projects, sync_calls,
                   svars, rowvars, runvars, morevars, mvars, ivars>>

\* lines 271-307: one pass of the upload loop
UploadProject ==
    /\ sync_pc = "uploading"
    /\ pos < Len(projects)
    /\ \E step \in UploadSteps \cup {"ok"}, has_audio \in BOOLEAN :
          LET id == projects[pos + 1]
          IN  /\ step = "create_folder" => _find_folder(drive, id) = 0
              /\ step = "upload_audio" => has_audio
              /\ drive' = drive_after_upload(drive, id, step, has_audio)
              /\ sync_results' = Record(sync_results, IF step = "ok" THEN "uploaded" ELSE "errors", id)
    /\ pos' = pos + 1
    /\ UNCHANGED <<sync_pc, local_projects, project_ids, projects, sync_calls,
                   svars, rowvars, runvars, morevars, mvars, ivars>>

\* lines 408-411: the project folders are listed, or the listing raises
DownloadStarts ==
    /\ sync_pc = "call_download"
    /\ \/ /\ projects' = download_list(drive, project_ids, 1)
          /\ sync_pc' = "downloading"
       \/ /\ sync_pc' = "raised"
          /\ UNCHANGED projects
    /\ UNCHANGED <<drive, local_projects, project_ids, pos, sync_calls, sync_results,
                   svars, rowvars, runvars, morevars, mvars, ivars>>

\* lines 413-489: one pass of the download loop
DownloadProject ==
    /\ sync_pc = "downloading"
    /\ pos < Len(projects)
    /\ \E step \in DownloadSteps \cup {"no_json", "ok"} :
          LET project_folder_ == drive[projects[pos + 1]]
              project_id == project_folder_.name
              is_local == local_projects[project_id] # "none"
          IN  /\ ~HasFile(project_folder_, "project.json")
                     => step \in {"list_files", "no_json"}
              /\ step = "no_json" => ~HasFile(project_folder_, "project.json")
              /\ step \in {"export", "merge"} => is_local
              /\ step = "download_audio"
                     => ~is_local /\ HasFile(project_folder_, "audio.mp3")
              /\ local_projects' =
                     IF ~is_local /\ step \in {"download_audio", "ok"}
                     THEN [local_projects EXCEPT ![project_id] = "ready"]
                     ELSE local_projects
              /\ sync_results' =
                     IF step # "ok" THEN Record(sync_results, "errors", project_id)
                     ELSE Record(Record(sync_results, IF is_local THEN "merged" ELSE "new",
                                        project_id),
                                 "downloaded", project_id)
    /\ pos' = pos + 1
    /\ UNCHANGED <<sync_pc, drive, project_ids, projects, sync_calls,
                   svars, rowvars, runvars, morevars, mvars, ivars>>

\* lines 309-311 and 491: the loop is over, the results are returned
SyncReturns ==
    /\ sync_pc \in {"uploading", "downloading"}
    /\ pos = Len(projects)
    /\ sync_pc' = "returned"
    /\ UNCHANGED <<drive, local_projects, project_ids, projects, pos, sync_calls,
                   sync_results,
                   svars, rowvars, runvars, morevars, mvars, ivars>>

\* the next call: another upload or download, with any selection
NextCall ==
    /\ sync_pc \in {"returned", "raised"}
    /\ sync_calls < MaxCalls
    /\ sync_pc' \in {"call_upload", "call_download"}
    /\ project_ids' \in {{}, {"p1"}, ProjectIds}
    /\ projects' = << >>
    /\ pos' = 0
    /\ sync_calls' = sync_calls + 1
    /\ sync_results' = NoResults
    /\ UNCHANGED <<drive, local_projects, svars, rowvars, runvars, morevars, mvars, ivars>>

NextSync ==
    UploadStarts \/ UploadProject \/ DownloadStarts \/ DownloadProject \/ SyncReturns
        \/ NextCall

SpecSync == InitSync /\ [][NextSync]_vars


\* ------------------------------------------------------ Python floats
\* A positive float is n * 2^(-e), the numerator n written in limbs of 18
\* bits: n = hi * 2^54 + a * 2^36 + b * 2^18 + c.  Division and
\* multiplication round to float_digits significant bits, to nearest, ties
\* to even (IEEE 754 binary64).
float_digits == 53

RECURSIVE pow2(_)
pow2(n) == IF n = 0 THEN 1 ELSE 2 * pow2(n - 1)

Limb == pow2(18)

\* the number of bits of a natural number
RECURSIVE bit_length(_)
bit_length(n) == IF n = 0 THEN 0 ELSE 1 + bit_length(n \div 2)

\* the limbs brought back below 2^18, the carries passed upwards
carried(hi, a, b, c, e) ==
    LET b1 == b + (c \div Limb)
        a1 == a + (b1 \div Limb)
    IN  [hi |-> hi + (a1 \div Limb), a |-> a1 % Limb, b |-> b1 % Limb, c |-> c % Limb,
         e |-> e]

\* the exact value x rounded to float_digits bits; sticky tells that
\* non-zero bits below x were cut off already
round_float(x, sticky) ==
    LET len == IF x.hi > 0 THEN 54 + bit_length(x.hi) ELSE 36 + bit_length(x.a)
        cut == len - float_digits
    IN  IF cut <= 0 THEN x
        ELSE LET guard == (x.c \div pow2(cut - 1)) % 2
                 rest == sticky \/ x.c % pow2(cut - 1) # 0
                 lsb == IF cut = 18 THEN x.b % 2 ELSE (x.c \div pow2(cut)) % 2
                 kept == x.c - (x.c % pow2(cut))
                 up == guard = 1 /\ (rest \/ lsb = 1)
             IN  carried(x.hi, x.a, x.b, kept + (IF up THEN pow2(cut) ELSE 0), x.e)

\* the number of zero bits of r / d after the binary point (0 < r < d)
RECURSIVE leading_zeros(_, _)
leading_zeros(r, d) == IF 2 * r >= d THEN 0 ELSE 1 + leading_zeros(2 * r, d)

\* the least j with p < t * 2^j
RECURSIVE scale_of(_, _)
scale_of(p, t) == IF p < t THEN 0 ELSE 1 + scale_of(p, 2 * t)

\* p / t for integers p > 0 and t > 0: long division, three limbs after
\* the leading zeros
true_div(p, t) ==
    LET j == scale_of(p, t)
        d == t * pow2(j)
        z == leading_zeros(p, d)
        r0 == p * pow2(z)
        r1 == (r0 * Limb) % d
        r2 == (r1 * Limb) % d
        r3 == (r2 * Limb) % d
    IN  round_float([hi |-> 0, a |-> (r0 * Limb) \div d, b |-> (r1 * Limb) \div d,
                     c |-> (r2 * Limb) \div d, e |-> z + 54 - j],
                    r3 # 0)

\* x * n for a float x > 0 and a small integer n > 0
float_times(x, n) == round_float(carried(x.hi * n, x.a * n, x.b * n, x.c * n, x.e), FALSE)

\* int(x) for a float x > 0 with 36 <= e
py_int(x) ==
    IF x.e - 36 > 30 THEN 0 ELSE (x.hi * Limb + x.a) \div pow2(x.e - 36)

\* ------------------------------------------------------- Project.progress
MaxTotal == 45       \* most sentences of a project

\* the statuses a row is given: the six of the CHECK constraint and the one
\* the processor sets before speaker identification
RowStatuses ==
    {"pending", "extracting", "transcribing", "identifying", "explaining", "ready", "error"}

\* stages.get(self.status, 0)
stage_base(st) ==
    CASE st = "pending" -> 0
      [] st = "extracting" -> 10
      [] st = "transcribing" -> 30
      [] st = "explaining" -> 50
      [] st = "ready" -> 100
      [] st = "error" -> 0
      [] OTHER -> 0

\* int(self.processed_sentences / self.total_sentences * 45)
explained_share(processed, total) ==
    IF processed = 0 THEN 0
    ELSE py_int(float_times(true_div(processed, total), 45))

\* the property Project.progress, of a row with these three columns
progress_of(st, total, processed) ==
    IF st = "explaining" /\ total > 0
    THEN 50 + explained_share(processed, total)
    ELSE stage_base(st)

\* the property Project.progress of the row
progress ==
    progress_of(status, total_sentences, processed_sentences)

InitProgress ==
    /\ status \in RowStatuses
    /\ total_sentences \in 0..MaxTotal
    /\ processed_sentences \in 0..total_sentences
    /\ error_message = None
    /\ audio_file = None
    /\ speakers = << >>
    /\ sentences = << >>
    /\ keywords = {}
    /\ shown = NotRead
    /\ pc = "off"
    /\ utt = MkUtterance(<< >>, 0, "A")
    /\ max_words = max_sentence_words
    /\ s_pc = "off"
    /\ final_texts = << >>
    /\ merged_texts = << >>
    /\ result = << >>
    /\ RetryIdle
    /\ FullIdle
    /\ UploadIdle
    /\ RunIdle
    /\ MergeIdle
    /\ ImportIdle
    /\ SyncIdle

\* the row is serialised: the property is read
ReadProgress ==
    /\ shown = NotRead
    /\ shown' = progress
    /\ UNCHANGED <<svars, rowvars, runvars, mvars, ivars, yvars, retryvars, fullvars,
                   uploadvars>>

NextProgress == ReadProgress

SpecProgress == InitProgress /\ [][NextProgress]_vars


\* ----------------------------- transcribe_with_retry and explain_with_retry
MaxRetries == 3      \* largest argument max_retries

\* retry_delay, in seconds: the defaults of explain_with_retry (1.0) and of
\* transcribe_with_retry (2.0), and no delay
RetryDelays == {0, 1, 2}

RetryFunctions == {"transcribe", "explain"}

\* the error the loop catches and raises
typed_error(fn) == IF fn = "transcribe" THEN "TranscriptionError" ELSE "ExplanationError"

\* what the collaborator raises besides the typed error: transcribe lets
\* FileNotFoundError through, explain_batch wraps every Exception
other_errors(fn) == IF fn = "transcribe" THEN {"FileNotFoundError"} ELSE {}

\* a mutation of the delay: no doubling
backoff_constant(retry_delay, k) == retry_delay

\* delay = retry_delay * (2 ** attempt)
backoff(retry_delay, k) == retry_delay * pow2(k)

InitRetry ==
    /\ r_fn \in RetryFunctions
    /\ r_max \in 0..MaxRetries
    /\ r_delay \in RetryDelays
    /\ r_attempt = 0
    /\ r_calls = 0
    /\ r_waits = << >>
    /\ r_pc = "attempt"
    /\ r_raised = "none"
    /\ ProgressIdle
    /\ FullIdle
    /\ UploadIdle
    /\ utt = MkUtterance(<< >>, 0, "A")
    /\ max_words = max_sentence_words
    /\ s_pc = "off"
    /\ final_texts = << >>
    /\ merged_texts = << >>
    /\ result = << >>
    /\ ProjectCreated
    /\ pc = "off"
    /\ RunIdle
    /\ MergeIdle
    /\ ImportIdle
    /\ SyncIdle

RetryRest ==
    <<svars, rowvars, runvars, mvars, ivars, yvars, pvars, fullvars, uploadvars,
      r_fn, r_max, r_delay>>

\* the collaborator returns: its result is returned
AttemptReturns ==
    /\ r_pc = "attempt"
    /\ r_attempt < r_max
    /\ r_calls' = r_calls + 1
    /\ r_pc' = "returned"
    /\ UNCHANGED <<RetryRest, r_attempt, r_waits, r_raised>>

\* the collaborator raises the typed error and attempts are left: sleep
AttemptFails ==
    /\ r_pc = "attempt"
    /\ r_attempt < r_max
    /\ r_attempt < r_max - 1
    /\ r_calls' = r_calls + 1
    /\ r_waits' = Append(r_waits, backoff(r_delay, r_attempt))
    /\ r_pc' = "sleeping"
    /\ UNCHANGED <<RetryRest, r_attempt, r_raised>>

\* asyncio.sleep(delay) returns: the next attempt
SleepEnds ==
    /\ r_pc = "sleeping"
    /\ r_attempt' = r_attempt + 1
    /\ r_pc' = "attempt"
    /\ UNCHANGED <<RetryRest, r_calls, r_waits, r_raised>>

\* the collaborator raises the typed error on the last attempt: the loop
\* ends and the typed error is raised
LastAttemptFails ==
    /\ r_pc = "attempt"
    /\ r_attempt < r_max
    /\ r_attempt >= r_max - 1
    /\ r_calls' = r_calls + 1
    /\ r_pc' = "raised"
    /\ r_raised' = typed_error(r_fn)
    /\ UNCHANGED <<RetryRest, r_attempt, r_waits>>

\* range(max_retries) is empty: the typed error is raised without a call
NoAttempt ==
    /\ r_pc = "attempt"
    /\ r_attempt >= r_max
    /\ r_pc' = "raised"
    /\ r_raised' = typed_error(r_fn)
    /\ UNCHANGED <<RetryRest, r_attempt, r_calls, r_waits>>

\* the collaborator raises an error the loop does not catch
AttemptRaisesOther ==
    /\ r_pc = "attempt"
    /\ r_attempt < r_max
    /\ \E e \in other_errors(r_fn) : r_raised' = e
    /\ r_calls' = r_calls + 1
    /\ r_pc' = "raised"
    /\ UNCHANGED <<RetryRest, r_attempt, r_waits>>

NextRetry ==
    AttemptReturns \/ AttemptFails \/ SleepEnds \/ LastAttemptFails \/ NoAttempt
        \/ AttemptRaisesOther

SpecRetry == InitRetry /\ [][NextRetry]_vars

\* ------------------------------------ full_sync and download on a project
\* datetime.isoformat() of a stored datetime: the string without offset
isoformat(dt) ==
    JStr((CHOOSE d \in Timestamps : d.ok /\ ~d.aware /\ d.t = dt.t).s)

\* the ids of a table's rows of the project, by idx
rows_by_idx(table, project_id) ==
    LET ids == {id \in DOMAIN table : table[id].project_id = project_id}
    IN  CHOOSE o \in Permutations_of(ids) :
            \A i, j \in 1..Len(o) : i < j => table[o[i]].idx.n <= table[o[j]].idx.n

\* lines 343-365: a sentence of the export
export_sentence(db, s) ==
    [id |-> s.id, index |-> s.idx,
     learned |-> py_or(s.learned, JBool(FALSE)),
     learn_count |-> py_or(s.learn_count, JInt(0)),
     is_difficult |-> py_or(s.is_difficult, JBool(FALSE)),
     review_count |-> py_or(s.review_count, JInt(0)),
     last_reviewed |-> IF s.last_reviewed.ok THEN isoformat(s.last_reviewed) ELSE JNull,
     keywords |-> LET ks == Permutations_of({k \in DOMAIN db.keywords :
                                                db.keywords[k].sentence_id = s.id})
                      o == CHOOSE f \in ks : TRUE
                  IN  [i \in 1..Len(o) |-> [word |-> db.keywords[o[i]].word]]]

\* _export_project: the document of the project's rows.  The stored
\* keywords and speakers come in the order the query gives them.
_export_project(db, project_id) ==
    LET project == db.projects[project_id]
        order == rows_by_idx(db.sentences, project_id)
        ss == [i \in 1..Len(order) |-> export_sentence(db, db.sentences[order[i]])]
        kids == CHOOSE f \in Permutations_of(
                    {k \in DOMAIN db.keywords :
                        \E i \in 1..Len(order) : db.keywords[k].sentence_id = order[i]}) : TRUE
        sids == CHOOSE f \in Permutations_of(
                    {id \in DOMAIN db.speakers : db.speakers[id].project_id = project_id}) :
                    TRUE
    IN  [ExportedDoc(ss,
                     [i \in 1..Len(kids) |->
                         [id |-> kids[i].doc, word |-> db.keywords[kids[i]].word,
                          sentence_id |-> db.keywords[kids[i]].sentence_id]],
                     [i \in 1..Len(sids) |->
                         [id |-> JStr(sids[i]), label |-> db.speakers[sids[i]].label,
                          display_name |-> db.speakers[sids[i]].display_name,
                          is_manual |-> db.speakers[sids[i]].is_manual]])
            EXCEPT !.id = JStr(project_id), !.name = project.name, !.status = project.status]

\* the sentence s1 of the local project with progress made on this device
LocalSentence(f) ==
    [StoredSentence("s1") EXCEPT
        !.learned = f.learned, !.learn_count = f.learn_count,
        !.is_difficult = f.is_difficult, !.review_count = f.review_count,
        !.last_reviewed = f.last_reviewed]

StoredFields ==
    [learned |-> JBool(FALSE), learn_count |-> JInt(0), is_difficult |-> JBool(FALSE),
     review_count |-> JInt(0), last_reviewed |-> NoDatetime]

\* what the columns of a local sentence hold
StoredFlags == {JNull, JBool(FALSE), JBool(TRUE)}

StoredCounts == {JNull} \cup {JInt(i) : i \in 0..MaxCount}

StoredTimes == {NoDatetime} \cup {Stored(d) : d \in {t \in Timestamps : t.ok}}

LocalDb(f, st) ==
    [ExplainedDb EXCEPT !.projects["p1"].status = JStr(st),
                        !.sentences["s1"] = LocalSentence(f)]

\* the local rows and the remote document tried together, in families
SyncPairs ==
    {<<[StoredFields EXCEPT !.learned = a, !.learn_count = b], d>> :
         a \in StoredFlags, b \in StoredCounts, d \in LearnDocs}
    \cup {<<[StoredFields EXCEPT !.is_difficult = a, !.review_count = b], d>> :
              a \in StoredFlags, b \in StoredCounts, d \in ReviewDocs}
    \cup {<<[StoredFields EXCEPT !.last_reviewed = a, !.learned = b], d>> :
              a \in StoredTimes, b \in {JBool(FALSE), JBool(TRUE)},
              d \in {x \in TimestampDocs : x.created_at = EmptyDoc.created_at}}
    \cup {<<StoredFields, d>> : d \in SentenceListDocs}

InitFull ==
    /\ \E pair \in SyncPairs : \E st \in {"ready", "error"} :
           /\ database = LocalDb(pair[1], st)
           /\ snapshot = pair[2]
    /\ imports = 0
    /\ i_pc = "off"
    /\ endpoint \in {"full_sync", "download"}
    /\ full_pc = IF endpoint = "full_sync" THEN "upload" ELSE "download"
    /\ local_before = database
    /\ remote_before = snapshot
    /\ upload_result = "none"
    /\ download_result = "none"
    /\ ProgressIdle
    /\ RetryIdle
    /\ UploadIdle
    /\ utt = MkUtterance(<< >>, 0, "A")
    /\ max_words = max_sentence_words
    /\ s_pc = "off"
    /\ final_texts = << >>
    /\ merged_texts = << >>
    /\ result = << >>
    /\ ProjectCreated
    /\ pc = "off"
    /\ RunIdle
    /\ MergeIdle
    /\ SyncIdle

FullRest == <<svars, rowvars, runvars, mvars, yvars, pvars, retryvars, uploadvars, endpoint,
              local_before, remote_before, imports, i_pc>>

\* upload_to_drive, the project not ready: the query leaves it out
UploadSkips ==
    /\ full_pc = "upload"
    /\ database.projects["p1"].status # JStr("ready")
    /\ upload_result' = "skipped"
    /\ full_pc' = "download"
    /\ UNCHANGED <<FullRest, database, snapshot, download_result>>

\* lines 271-287: project.json on Drive after the upload of the export
uploaded_json(db, remote) == _export_project(db, "p1")

\* upload_to_drive, the project ready: its export replaces project.json
UploadOverwrites ==
    /\ full_pc = "upload"
    /\ database.projects["p1"].status = JStr("ready")
    /\ snapshot' = uploaded_json(database, snapshot)
    /\ upload_result' = "uploaded"
    /\ full_pc' = "download"
    /\ UNCHANGED <<FullRest, database, download_result>>

\* a Drive call of the upload raises: the project goes to errors
UploadFails ==
    /\ full_pc = "upload"
    /\ database.projects["p1"].status = JStr("ready")
    /\ upload_result' = "error"
    /\ full_pc' = "download"
    /\ UNCHANGED <<FullRest, database, snapshot, download_result>>

\* a mutation of the download: the remote document is imported unmerged
import_remote(local, remote, order) == remote

\* lines 448-452: merger.merge(self._export_project(local_project, db), remote_data)
merged_for_import(local, remote, order) == merge(local, remote, order)

\* download_from_drive, the project local: merge, import, commit
DownloadMerges ==
    /\ full_pc = "download"
    /\ LET local == _export_project(database, "p1")
       IN  /\ ~merge_raises(local, snapshot)
           /\ \E order \in Orders(all_ids(local.sentences, snapshot.sentences)) :
                  LET merged == merged_for_import(local, snapshot, order)
                  IN  /\ ~import_raises(database, merged)
                      /\ database' = _import_project(database, merged, DrawnUuids(database))
    /\ download_result' = "merged"
    /\ full_pc' = "done"
    /\ UNCHANGED <<FullRest, snapshot, upload_result>>

\* the merge, the import or a Drive call raises: the project goes to errors
\* and nothing is committed
DownloadFails ==
    /\ full_pc = "download"
    /\ download_result' = "error"
    /\ full_pc' = "done"
    /\ UNCHANGED <<FullRest, database, snapshot, upload_result>>

NextFull == UploadSkips \/ UploadOverwrites \/ UploadFails \/ DownloadMerges \/ DownloadFails

SpecFull == InitFull /\ [][NextFull]_vars

\* ------------------------------------------- POST /api/projects/import
\* The endpoint called again and again with the same file.  A project of the
\* file is its id, its name and the number of its sentences; a row of the
\* table has as id the id it was created with (DocKey, an id the file can
\* name) or a uuid4 drawn by the endpoint (UuidKey).
ProjectData ==
    [id : {JStr(x) : x \in ProjectIds} \cup {JMissing},
     name : {JStr("Les 1"), JMissing},
     sentences : 0..MaxCount]

\* the files: {"project": ..., "sentences": ...}, {"projects": [...]}, or
\* JSON with neither key
ImportFiles ==
    {[key |-> "project", items |-> <<d>>] : d \in ProjectData}
    \cup {[key |-> "projects", items |-> ds] : ds \in SeqsUpTo(ProjectData, MaxItems)}
    \cup {NoFile}

ProjectRow(key, name, n) ==
    [id |-> key, name |-> name, status |-> "ready", total_sentences |-> n,
     processed_sentences |-> n]

\* the tables the endpoint can find: projects this database made itself
LocalTables ==
    {<< >>,
     <<ProjectRow(DocKey("p1"), JStr("Les 1"), 1)>>,
     <<ProjectRow(DocKey("p1"), JStr("Les 1"), 1), ProjectRow(DocKey("p2"), JStr("Les 1"), 0)>>}

\* db.query(Project).filter(Project.id == project_data.get("id")).first()
existing(table, project_data) ==
    /\ project_data.id # JMissing
    /\ \E i \in 1..Len(table) : table[i].id = DocKey(project_data.id.s)

\* the uuid4 values the rows of the table were given
drawn_ids(table) == Cardinality({i \in 1..Len(table) : table[i].id.doc = ""})

\* variant of created_project: the row keeps the id of the file
created_project_same_id(table, project_data) ==
    ProjectRow(IF project_data.id = JMissing THEN UuidKey(drawn_ids(table) + 1)
               ELSE DocKey(project_data.id.s),
               dict_get(project_data.name, JStr("Imported Project")),
               project_data.sentences)

\* lines 512-521: the new Project, its id a uuid4
created_project(table, project_data) ==
    ProjectRow(UuidKey(drawn_ids(table) + 1),
               dict_get(project_data.name, JStr("Imported Project")),
               project_data.sentences)

\* lines 505-556: the loop over projects_to_import; the rows added are
\* flushed, so the query of a later pass sees them
RECURSIVE import_loop(_, _)
import_loop(table, todo) ==
    IF todo = << >> THEN table
    ELSE IF existing(table, Head(todo)) THEN import_loop(table, Tail(todo))
    ELSE import_loop(Append(table, created_project(table, Head(todo))), Tail(todo))

InitUpload ==
    /\ import_data \in ImportFiles
    /\ project_table \in LocalTables
    /\ imported_projects = << >>
    /\ uploads = 0
    /\ shown = NotRead
    /\ utt = MkUtterance(<< >>, 0, "A")
    /\ max_words = max_sentence_words
    /\ s_pc = "off"
    /\ final_texts = << >>
    /\ merged_texts = << >>
    /\ result = << >>
    /\ ProjectCreated
    /\ pc = "off"
    /\ RunIdle
    /\ RetryIdle
    /\ FullIdle
    /\ MergeIdle
    /\ ImportIdle
    /\ SyncIdle

UploadRest == <<svars, rowvars, runvars, pvars, retryvars, fullvars, mvars, ivars, yvars>>

\* the request is answered 200: the projects not found are created and the
\* session is committed
FileImported ==
    /\ uploads < MaxImports
    /\ import_data.key \in {"project", "projects"}
    /\ project_table' = import_loop(project_table, import_data.items)
    /\ imported_projects' =
           [k \in 1..(Len(project_table') - Len(project_table)) |->
               project_table'[Len(project_table) + k].id]
    /\ uploads' = uploads + 1
    /\ UNCHANGED <<import_data, UploadRest>>

\* the request is answered 400, Invalid export format: nothing is stored
FileRejected ==
    /\ uploads < MaxImports
    /\ import_data.key = "none"
    /\ uploads' = uploads + 1
    /\ UNCHANGED <<import_data, project_table, imported_projects, UploadRest>>

NextUpload == FileImported \/ FileRejected

SpecUpload == InitUpload /\ [][NextUpload]_vars

\* ================================================================ claims
\* ---- C1: the persisted status moves only one step along pending ->
\* extracting -> transcribing -> identifying -> explaining -> ready, or from
\* one of the first five to error; nothing leaves ready or error.
StatusOrder == <<"pending", "extracting", "transcribing", "identifying", "explaining", "ready">>

AllowedTransition(a, b) ==
    \/ \E k \in 1..(Len(StatusOrder) - 1) : a = StatusOrder[k] /\ b = StatusOrder[k + 1]
    \/ b = "error" /\ \E k \in 1..(Len(StatusOrder) - 1) : a = StatusOrder[k]

C1_StatusTransitions == [][status' # status => AllowedTransition(status, status')]_vars

C1_Witness == pc = "done" /\ status = "ready" /\ ident = "returned"

\* ---- C2: when extract, transcribe or explain raises, the run ends with
\* status error and a message, process_project raises ProcessingError, and
\* no collaborator of a later stage has been called.
LaterStages(stage) ==
    IF stage = "extract" THEN {"transcribe", "identify", "explain"}
    ELSE IF stage = "transcribe" THEN {"identify", "explain"}
    ELSE {}

C2_BlockingFailure ==
    (pc = "done" /\ exc.stage \in {"extract", "transcribe", "explain"}) =>
        /\ status = "error"
        /\ error_message # None
        /\ raised = "ProcessingError"
        /\ \A c \in LaterStages(exc.stage) : calls[c] = 0

C2_Witness ==
    /\ pc = "done"
    /\ exc = [stage |-> "transcribe", kind |-> "Exception"]
    /\ calls["transcribe"] > 1

\* ---- C3: when every transcription attempt up to the cap fails with
\* TranscriptionError, the run ends with status error, the message of the
\* transcription failure, and no Sentence and no Speaker row.
C3_TranscriptionExhausted ==
    (pc = "done" /\ exc = [stage |-> "transcribe", kind |-> "TranscriptionError"]) =>
        /\ status = "error"
        /\ error_message = "Transcription failed"
        /\ sentences = << >>
        /\ DOMAIN speakers = {}

C3_Witness ==
    /\ pc = "done"
    /\ exc = [stage |-> "transcribe", kind |-> "TranscriptionError"]
    /\ calls["transcribe"] = max_retries

\* ---- C4: when the identifier raises, _identify_speakers returns normally
\* with every Speaker row as it was, and the run goes on: it ends ready,
\* unless the explain stage fails.
C4_IdentifyNonBlocking ==
    /\ [][(pc = "identify" /\ ident' = "raised") =>
             /\ speakers' = speakers
             /\ status' = status
             /\ raised' = "none"
             /\ pc' = "identified"]_vars
    /\ []((ident = "raised" /\ pc = "done") =>
             \/ status = "ready"
             \/ status = "error" /\ exc.stage = "explain")

C4_Witness == ident = "raised" /\ pc = "done" /\ status = "ready"

\* ---- C5: the identification stage leaves display_name and evidence of a
\* Speaker whose is_manual is true as they are.
C5_ManualLock ==
    [][(pc = "identify" /\ pc' = "identified") =>
          \A l \in DOMAIN speakers :
              speakers[l].is_manual =>
                  /\ speakers'[l].display_name = speakers[l].display_name
                  /\ speakers'[l].evidence = speakers[l].evidence]_vars

\* ---- C6: processed_sentences never exceeds total_sentences.
C6_ProcessedWithinTotal == processed_sentences <= total_sentences

C6_Witness ==
    /\ status = "explaining"
    /\ processed_sentences = explanation_batch_size
    /\ processed_sentences < total_sentences

\* ---- C7: every segment _split_utterance returns has at most max_words words.
C7_SegmentsWithinBudget ==
    s_pc = "returned" => \A k \in 1..Len(result) : Len(result[k].text) <= max_words

\* ---- C8: the merge pass joins a short segment to a neighbour only when
\* the joined segment has at most max_words words, and emits a short segment
\* on its own when neither neighbour has room for it.
IsSegmentOf(seg, segments) == \E j \in 1..Len(segments) : segments[j] = seg

NoRoom(segments, j, budget) ==
    /\ j > 1 => Len(segments[j - 1]) + Len(segments[j]) > budget
    /\ j < Len(segments) => Len(segments[j + 1]) + Len(segments[j]) > budget

C8_MergeOnlyWithRoom ==
    s_pc = "returned" =>
        /\ \A k \in 1..Len(merged_texts) :
              \/ IsSegmentOf(merged_texts[k], final_texts)
              \/ Len(merged_texts[k]) <= max_words
        /\ \A j \in 1..Len(final_texts) :
              (Len(final_texts) > 1 /\ Len(final_texts[j]) < MIN_SEGMENT_WORDS
               /\ NoRoom(final_texts, j, max_words))
                  => IsSegmentOf(final_texts[j], merged_texts)

\* ---- C9: when an utterance is split into several segments, the word
\* timestamps of the segments, in order, are all the word timestamps of the
\* utterance: what is left after the count-based assignment is in the last.
RECURSIVE WordsOf(_)
WordsOf(us) == IF us = << >> THEN << >> ELSE Head(us).words \o WordsOf(Tail(us))

C9_AllTimestampsAssigned ==
    (s_pc = "returned" /\ Len(result) > 1) => WordsOf(result) = utt.words

\* ---- C10: the words of the returned segments, in order, are the words of
\* the input text.
RECURSIVE TextOf(_)
TextOf(us) == IF us = << >> THEN << >> ELSE Head(us).text \o TextOf(Tail(us))

C10_WordsPreserved == s_pc = "returned" => TextOf(result) = utt.text

C10_Witness ==
    /\ s_pc = "returned"
    /\ Len(result) > 1
    /\ Len(merged_texts) < Len(final_texts)
    /\ \E k \in 1..Len(final_texts) : Len(final_texts[k]) < Len(result[Len(result)].text)

\* C11: the first returned segment starts at the utterance's start and the
\* last returned segment ends at the utterance's end, whatever the word
\* timestamps are (none, fewer than the text's words, as many, more).
C11_EndpointsPinned ==
    s_pc = "returned" =>
        /\ Len(result) >= 1
        /\ result[1].start = utt.start
        /\ result[Len(result)].end = utt.end

\* a split utterance with fewer word timestamps than words, whose first
\* word starts after the utterance does
C11_Witness ==
    /\ s_pc = "returned"
    /\ Len(result) > 1
    /\ Len(utt.words) > 0
    /\ Len(utt.words) < Len(utt.text)
    /\ utt.words[1].start # utt.start

\* ---------------------------------------------------- merge claims
\* the sentence ids both documents have, and the sentence of an id on each
\* side (the last one listed, as the code indexes them) and in the result
SharedIds == {local_data.sentences[i].id : i \in 1..Len(local_data.sentences)}
             \cap {remote_data.sentences[i].id : i \in 1..Len(remote_data.sentences)}

LastWithId(ss, id) == ss[CHOOSE i \in 1..Len(ss) :
                            ss[i].id = id /\ \A j \in (i + 1)..Len(ss) : ss[j].id # id]

MergedWithId(id) == {i \in 1..Len(merged_data.sentences) : merged_data.sentences[i].id = id}

\* a count as the claim reads it: missing or null is 0
CountOf(v) == IF v.kind = "int" THEN v.n ELSE 0

IsTrue(v) == v = JBool(TRUE)

\* C12: for a sentence id in both documents the merged sentence has
\* learned true exactly when it is true on either side, learn_count the
\* larger of the two counts (missing or null as 0), is_difficult true
\* exactly when true on either side, review_count the larger of the two.
C12_ProgressReducers ==
    m_pc = "returned" =>
        \A id \in SharedIds :
            /\ Cardinality(MergedWithId(id)) = 1
            /\ LET l == LastWithId(local_data.sentences, id)
                   r == LastWithId(remote_data.sentences, id)
                   m == LastWithId(merged_data.sentences, id)
               IN  /\ IsTrue(m.learned) <=> (IsTrue(l.learned) \/ IsTrue(r.learned))
                   /\ m.learned \in {JBool(TRUE), JBool(FALSE), JNull}
                   /\ m.learn_count = JInt(Max(CountOf(l.learn_count), CountOf(r.learn_count)))
                   /\ IsTrue(m.is_difficult) <=> (IsTrue(l.is_difficult) \/ IsTrue(r.is_difficult))
                   /\ m.is_difficult \in {JBool(TRUE), JBool(FALSE), JNull}
                   /\ m.review_count = JInt(Max(CountOf(l.review_count), CountOf(r.review_count)))

\* the spec's scenario with a null on one side: local not learned with the
\* higher count, remote learned with a null count
C12_Witness ==
    /\ m_pc = "returned"
    /\ \E id \in SharedIds :
           /\ LastWithId(local_data.sentences, id).learned = JBool(FALSE)
           /\ LastWithId(remote_data.sentences, id).learned = JBool(TRUE)
           /\ LastWithId(local_data.sentences, id).learn_count = JInt(MaxCount)
           /\ LastWithId(remote_data.sentences, id).learn_count = JNull
           /\ LastWithId(merged_data.sentences, id).learned = JBool(TRUE)
           /\ LastWithId(merged_data.sentences, id).learn_count = JInt(MaxCount)

\* C13: merging in the other direction gives every shared sentence the
\* same learned, learn_count, is_difficult and review_count, also when a
\* field is missing or null on one side.
C13_MergeSymmetric ==
    m_pc = "returned" =>
        \A order \in Orders(all_ids(remote_data.sentences, local_data.sentences)) :
            \A id \in SharedIds :
                LET m == LastWithId(merged_data.sentences, id)
                    w == LastWithId(_merge_sentences(remote_data.sentences,
                                                     local_data.sentences, order), id)
                IN  /\ m.learned = w.learned
                    /\ m.learn_count = w.learn_count
                    /\ m.is_difficult = w.is_difficult
                    /\ m.review_count = w.review_count

Range(seq) == {seq[i] : i \in 1..Len(seq)}

\* a document merged with itself has been returned
SelfMerged == m_pc = "returned" /\ local_data = remote_data

\* C14 as stated: merge(D, D) has D's sentences, keywords and speakers,
\* every sentence with D's learned, learn_count, is_difficult, review_count
\* and last_reviewed; name, status and created_at are D's as well.
C14_SelfMergeUnchanged ==
    SelfMerged =>
        /\ Range(merged_data.sentences) = Range(local_data.sentences)
        /\ Range(merged_data.keywords) = Range(local_data.keywords)
        /\ Range(merged_data.speakers) = Range(local_data.speakers)
        /\ merged_data.name = local_data.name
        /\ merged_data.status = local_data.status
        /\ merged_data.created_at = local_data.created_at

\* the ids of a list are distinct
DistinctIds(items) == \A i, j \in 1..Len(items) : items[i].id = items[j].id => i = j

\* a sentence with its absent and null progress fields read as the defaults
Defaulted(s) ==
    [s EXCEPT !.learned = dict_get(@, JBool(FALSE)),
              !.learn_count = JInt(CountOf(@)),
              !.is_difficult = dict_get(@, JBool(FALSE)),
              !.review_count = JInt(CountOf(@)),
              !.last_reviewed = dict_get(@, JNull)]

\* C14 amended: for a document whose sentences, keywords and speakers have
\* distinct ids, merge(D, D) has exactly D's sentences, keywords and
\* speakers, every sentence with D's progress values once an absent flag is
\* read as false, an absent or null count as 0 and an absent last_reviewed
\* as null; name and created_at are D's (null when absent) and status is
\* D's ('ready' when absent).
C14_SelfMergeDefaulted ==
    (/\ SelfMerged
     /\ DistinctIds(local_data.sentences)
     /\ DistinctIds(local_data.keywords)
     /\ DistinctIds(local_data.speakers)) =>
        /\ Len(merged_data.sentences) = Len(local_data.sentences)
        /\ Range(merged_data.sentences) = {Defaulted(x) : x \in Range(local_data.sentences)}
        /\ Len(merged_data.keywords) = Len(local_data.keywords)
        /\ Range(merged_data.keywords) = Range(local_data.keywords)
        /\ Len(merged_data.speakers) = Len(local_data.speakers)
        /\ Range(merged_data.speakers) = Range(local_data.speakers)
        /\ merged_data.name = dict_get(local_data.name, JNull)
        /\ merged_data.status = dict_get(local_data.status, JStr("ready"))
        /\ merged_data.created_at = dict_get(local_data.created_at, JNull)

\* a document with two keywords merged with itself
C14_Witness ==
    /\ SelfMerged
    /\ DistinctIds(local_data.keywords)
    /\ Len(local_data.keywords) = 2
    /\ Len(merged_data.keywords) = 2

\* a field has a value: a non-empty string
HasValue(v) == v.kind = "str" /\ v.s # ""

Parses(v) == HasValue(v) /\ _parse_timestamp(v).ok

InstantOf(v) == _parse_timestamp(v).t

\* C18: for a sentence in both documents the merged last_reviewed is the
\* later of the two when both parse, the parseable one when only one
\* parses, the one with a value when only one side has a value; and merge
\* does return one.
C18_LastReviewedLatest ==
    /\ m_pc = "raised" => ~sentences_raise(local_data.sentences, remote_data.sentences)
    /\ m_pc = "returned" =>
           \A id \in SharedIds :
               LET l == dict_get(LastWithId(local_data.sentences, id).last_reviewed, JNull)
                   r == dict_get(LastWithId(remote_data.sentences, id).last_reviewed, JNull)
                   m == LastWithId(merged_data.sentences, id).last_reviewed
               IN  /\ (Parses(l) /\ Parses(r)) =>
                          m \in {l, r} /\ InstantOf(m) = Max(InstantOf(l), InstantOf(r))
                   /\ (Parses(l) /\ ~Parses(r)) => m = l
                   /\ (~Parses(l) /\ Parses(r)) => m = r
                   /\ (HasValue(l) /\ ~HasValue(r)) => m = l
                   /\ (~HasValue(l) /\ HasValue(r)) => m = r

\* C19: the merged created_at is the earlier of the two when both parse,
\* and the other side's value when exactly one side is missing or
\* unparsable; and merge does return one.
C19_CreatedAtEarliest ==
    /\ m_pc = "raised" => ~earliest_raises(dict_get(local_data.created_at, JNull),
                                           dict_get(remote_data.created_at, JNull))
    /\ m_pc = "returned" =>
           LET l == dict_get(local_data.created_at, JNull)
               r == dict_get(remote_data.created_at, JNull)
               m == merged_data.created_at
           IN  /\ (Parses(l) /\ Parses(r)) =>
                      m \in {l, r} /\ InstantOf(m) = Min(InstantOf(l), InstantOf(r))
               /\ (Parses(l) /\ ~Parses(r)) => m = l
               /\ (~Parses(l) /\ Parses(r)) => m = r

\* C20 as stated: the merged name and status are the local document's,
\* whatever the two sides hold.
C20_LocalNameStatus ==
    m_pc = "returned" =>
        /\ merged_data.name = local_data.name
        /\ merged_data.status = local_data.status

\* C20 amended: the merged name is the local name when the local document
\* has a non-empty one and the remote name (null if it has none) otherwise;
\* the merged status is the local status when non-empty and the remote
\* status ('ready' if the remote document has no status key) otherwise.
C20_LocalNameStatusIfSet ==
    m_pc = "returned" =>
        /\ HasValue(local_data.name) => merged_data.name = local_data.name
        /\ ~HasValue(local_data.name) =>
               merged_data.name = (IF remote_data.name = JMissing THEN JNull
                                   ELSE remote_data.name)
        /\ HasValue(local_data.status) => merged_data.status = local_data.status
        /\ ~HasValue(local_data.status) =>
               merged_data.status = (IF remote_data.status = JMissing THEN JStr("ready")
                                     ELSE remote_data.status)

\* both sides named, differently, and the local name kept
C20_Witness ==
    /\ m_pc = "returned"
    /\ HasValue(local_data.name)
    /\ HasValue(remote_data.name)
    /\ local_data.name # remote_data.name
    /\ local_data.status = JStr("error")
    /\ remote_data.status = JStr("ready")
    /\ merged_data.name = local_data.name

\* ---------------------------------------------------- pipeline claims
\* the run ended on the explainer failing a batch after its last attempt
ExplainExhausted ==
    pc = "done" /\ exc = [stage |-> "explain", kind |-> "ExplanationError"]

\* C17: when the explainer fails batch k after the last attempt, the run
\* ends with status error; the rows are as batch k-1 left them:
\* processed_sentences is the number of sentences of the earlier batches,
\* exactly those sentences are explained, and the step of the failure
\* changes no sentence, keyword or speaker and requests nothing; nothing
\* is requested or written afterwards.
C17_BatchFailureAborts ==
    /\ [](ExplainExhausted =>
             /\ status = "error"
             /\ raised = "ProcessingError"
             /\ calls["explain"] >= max_retries
             /\ processed_sentences = batch_i
             /\ total_sentences = Len(sentences)
             /\ \A k \in 1..Len(sentences) : sentences[k].explained <=> k <= batch_i)
    /\ [][(pc = "explain" /\ pc' = "done") =>
             /\ processed_sentences' = processed_sentences
             /\ sentences' = sentences
             /\ keywords' = keywords
             /\ speakers' = speakers
             /\ calls' = calls]_vars
    /\ [][ExplainExhausted =>
             /\ calls' = calls
             /\ status' = status
             /\ processed_sentences' = processed_sentences
             /\ sentences' = sentences
             /\ keywords' = keywords]_vars

\* the second batch failed: the first batch's five sentences stay explained
C17_Witness ==
    /\ ExplainExhausted
    /\ batch_i = explanation_batch_size
    /\ processed_sentences = explanation_batch_size
    /\ Len(sentences) > explanation_batch_size
    /\ keywords # {}

\* the primary keys of the three tables
RowIds(d) == <<DOMAIN d.sentences, DOMAIN d.keywords, DOMAIN d.speakers>>

\* rows of the keywords table for a word of a sentence
RowsFor(d, sentence_id, word) ==
    Cardinality({key \in DOMAIN d.keywords :
                    /\ d.keywords[key].sentence_id = sentence_id
                    /\ d.keywords[key].word = word})

\* times a list of keywords gives the word
TimesIn(ks, word) == Cardinality({i \in 1..Len(ks) : ks[i].word = word})

\* times the document gives the word for the sentence: in the top-level
\* list, or in the nested lists of the sentence, which repeat it
GivenFor(doc, sentence_id, word) ==
    LET top == Cardinality({i \in 1..Len(doc.keywords) :
                               /\ doc.keywords[i].sentence_id = sentence_id
                               /\ doc.keywords[i].word = word})
        SumNested[i \in 0..Len(doc.sentences)] ==
            IF i = 0 THEN 0
            ELSE SumNested[i - 1]
                 + (IF doc.sentences[i].id = sentence_id
                    THEN TimesIn(doc.sentences[i].keywords, word)
                    ELSE 0)
    IN  Max(top, SumNested[Len(doc.sentences)])

\* an import stores a keyword of the document more often than it is given
KeywordTwice ==
    \E sentence_id \in {"s1", "s2"}, word \in Words :
        RowsFor(database', sentence_id, word)
            > RowsFor(database, sentence_id, word) + GivenFor(snapshot, sentence_id, word)

\* C15: importing the same snapshot a second time adds no sentence, keyword
\* or speaker row to those the first import left, and no import stores a
\* keyword of the snapshot twice, also when the keywords come from the
\* per-sentence nested lists only.
C15_SecondImportAddsNothing ==
    /\ [][(imports = 1 /\ imports' = 2) => RowIds(database') = RowIds(database)]_vars
    /\ [][imports' = imports + 1 => ~KeywordTwice]_vars

\* the success list of the call, and what the two lists hold together
SuccessList == IF sync_pc = "uploading" THEN "uploaded" ELSE "downloaded"

Reported(res) == Len(res.uploaded) + Len(res.downloaded) + Len(res.errors)

\* the id of the project of the pass the loop is about to make
PassId ==
    IF sync_pc = "uploading" THEN projects[pos + 1] ELSE drive[projects[pos + 1]].name

\* C16: in upload_to_drive and download_from_drive a pass of the loop puts
\* its project in exactly one of the success list (uploaded, downloaded) and
\* the errors list, whether it raised or not, and leaves the loop running;
\* the call returns only after a pass for every selected project, each of
\* them reported once.
C16_FailuresScopedPerProject ==
    /\ [][(sync_pc \in {"uploading", "downloading"} /\ pos' # pos) =>
             /\ sync_pc' = sync_pc
             /\ pos' = pos + 1
             /\ \/ /\ sync_results'[SuccessList] = Append(sync_results[SuccessList], PassId)
                   /\ sync_results'.errors = sync_results.errors
                \/ /\ sync_results'.errors = Append(sync_results.errors, PassId)
                   /\ sync_results'[SuccessList] = sync_results[SuccessList]]_vars
    /\ [](sync_pc \in {"uploading", "downloading", "returned"} => Reported(sync_results) = pos)
    /\ [](sync_pc = "returned" => pos = Len(projects))
    /\ [][(sync_pc \in {"uploading", "downloading"}) => sync_pc' # "raised"]_vars

\* the first project failed and the second one was uploaded, or downloaded
C16_Witness ==
    /\ sync_pc = "returned"
    /\ Len(projects) = 2
    /\ sync_results.errors = <<"p1">>
    /\ sync_results.uploaded = <<"p2">> \/ sync_results.downloaded = <<"p2">>

\* ------------------------------------------------ merged lists
\* the ids the speakers of a list have, and the speakers with an id
SpeakerIds(sps) == {sps[i].id : i \in 1..Len(sps)} \ {JMissing}

SpeakersWithId(sps, id) == {i \in 1..Len(sps) : sps[i].id = id}

IsManual(sp) == Truthy(dict_get(sp.is_manual, JNull))

\* C21: the merged speakers have exactly one entry for every speaker id of
\* either list; for an id on both sides the entry is a remote record when a
\* remote record of the id is manual and the local one (the last listed)
\* is not, and the local record in every other case.
C21_SpeakersByIdManualFirst ==
    m_pc = "returned" =>
        /\ SpeakerIds(merged_data.speakers)
               = SpeakerIds(local_data.speakers) \cup SpeakerIds(remote_data.speakers)
        /\ \A id \in SpeakerIds(merged_data.speakers) :
               Cardinality(SpeakersWithId(merged_data.speakers, id)) = 1
        /\ \A id \in SpeakerIds(local_data.speakers) \cap SpeakerIds(remote_data.speakers) :
               LET l == LastWithId(local_data.speakers, id)
                   m == LastWithId(merged_data.speakers, id)
                   manual == {i \in SpeakersWithId(remote_data.speakers, id) :
                                 IsManual(remote_data.speakers[i])}
               IN  IF manual # {} /\ ~IsManual(l)
                   THEN \E i \in manual : m = remote_data.speakers[i]
                   ELSE m = l

\* a remote manual name replaced a local automatic one for the same id
C21_Witness ==
    /\ m_pc = "returned"
    /\ Len(local_data.speakers) = 1
    /\ Len(remote_data.speakers) = 1
    /\ local_data.speakers[1].id = remote_data.speakers[1].id
    /\ local_data.speakers[1].display_name = JStr("Jan")
    /\ ~IsManual(local_data.speakers[1])
    /\ remote_data.speakers[1].display_name = JStr("Piet")
    /\ IsManual(remote_data.speakers[1])
    /\ merged_data.speakers = remote_data.speakers

\* C22: in every document merge returns, progress.total_sentences is the
\* number of merged sentences, progress.learned_sentences the number of
\* them with learned true and progress.difficult_sentences the number with
\* is_difficult true, whatever the progress blocks of the inputs held.
C22_TotalsRecomputed ==
    m_pc = "returned" =>
        LET ss == merged_data.sentences
        IN  /\ merged_data.progress.total_sentences = JInt(Len(ss))
            /\ merged_data.progress.learned_sentences
                   = JInt(Cardinality({i \in 1..Len(ss) : IsTrue(ss[i].learned)}))
            /\ merged_data.progress.difficult_sentences
                   = JInt(Cardinality({i \in 1..Len(ss) : IsTrue(ss[i].is_difficult)}))

\* both progress blocks held totals that the merged sentences do not have
C22_Witness ==
    /\ m_pc = "returned"
    /\ local_data.progress.total_sentences = JInt(MaxCount)
    /\ remote_data.progress.total_sentences = JInt(0)
    /\ local_data.progress.learned_sentences = JInt(0)
    /\ remote_data.progress.learned_sentences = JInt(MaxCount)
    /\ Len(merged_data.sentences) = 1
    /\ IsTrue(merged_data.sentences[1].learned)
    /\ merged_data.progress.total_sentences = JInt(1)
    /\ merged_data.progress.learned_sentences = JInt(1)

SentenceIds(ss) == {ss[i].id : i \in 1..Len(ss)}

\* the ids on one side only, with the sentence the side has for them
OneSided ==
    {<<id, LastWithId(local_data.sentences, id)>> :
         id \in SentenceIds(local_data.sentences) \ SentenceIds(remote_data.sentences)}
    \cup {<<id, LastWithId(remote_data.sentences, id)>> :
              id \in SentenceIds(remote_data.sentences) \ SentenceIds(local_data.sentences)}

\* one merged sentence per id of either side, in non-decreasing index order
OnePerIdInOrder ==
    /\ SentenceIds(merged_data.sentences)
           = SentenceIds(local_data.sentences) \cup SentenceIds(remote_data.sentences)
    /\ \A id \in SentenceIds(merged_data.sentences) : Cardinality(MergedWithId(id)) = 1
    /\ \A i, j \in 1..Len(merged_data.sentences) :
           i < j => sort_key(merged_data.sentences[i]) <= sort_key(merged_data.sentences[j])

ProgressOf(s) == <<s.learned, s.learn_count, s.is_difficult, s.review_count, s.last_reviewed>>

\* C23 as stated: the merged sentences are one per id of the union, a
\* sentence on one side only has that side's learned, learn_count,
\* is_difficult, review_count and last_reviewed unchanged, and the list is
\* in non-decreasing index order.
C23_SentencesUnionUnchanged ==
    m_pc = "returned" =>
        /\ OnePerIdInOrder
        /\ \A p \in OneSided :
               ProgressOf(LastWithId(merged_data.sentences, p[1])) = ProgressOf(p[2])

\* C23 amended: the merged sentences are one per id of the union, in
\* non-decreasing index order; a sentence on one side only keeps its index,
\* the truth of learned and is_difficult, the numbers learn_count and
\* review_count (absent or null is 0, and is written as 0) and its
\* last_reviewed when it has one (no value is left when it has none).
C23_SentencesUnionDefaulted ==
    m_pc = "returned" =>
        /\ OnePerIdInOrder
        /\ \A p \in OneSided :
               LET m == LastWithId(merged_data.sentences, p[1])
                   s == p[2]
               IN  /\ m.index = s.index
                   /\ IsTrue(m.learned) <=> IsTrue(s.learned)
                   /\ IsTrue(m.is_difficult) <=> IsTrue(s.is_difficult)
                   /\ m.learn_count = JInt(CountOf(s.learn_count))
                   /\ m.review_count = JInt(CountOf(s.review_count))
                   /\ IF HasValue(s.last_reviewed)
                      THEN m.last_reviewed = s.last_reviewed
                      ELSE ~HasValue(m.last_reviewed)

\* a remote-only sentence with index 0 merged after a local one with index 1
C23_Witness ==
    /\ m_pc = "returned"
    /\ Len(local_data.sentences) = 1
    /\ Len(remote_data.sentences) = 1
    /\ local_data.sentences[1].id = "s1"
    /\ sort_key(local_data.sentences[1]) = 1
    /\ remote_data.sentences[1].id = "s2"
    /\ sort_key(remote_data.sentences[1]) = 0
    /\ merged_data.sentences = <<remote_data.sentences[1], local_data.sentences[1]>>

KeywordIds(ks) == {ks[i].id : i \in 1..Len(ks)}

\* C24: the merged keywords have exactly one entry for every keyword id of
\* either list; for an id on both sides the entry is the local keyword, and
\* a keyword on the remote side only is included as it is.
C24_KeywordsByIdLocalFirst ==
    m_pc = "returned" =>
        /\ KeywordIds(merged_data.keywords)
               = KeywordIds(local_data.keywords) \cup KeywordIds(remote_data.keywords)
        /\ \A id \in KeywordIds(merged_data.keywords) :
               /\ Cardinality({i \in 1..Len(merged_data.keywords) :
                                  merged_data.keywords[i].id = id}) = 1
               /\ LastWithId(merged_data.keywords, id)
                      = IF id \in KeywordIds(local_data.keywords)
                        THEN LastWithId(local_data.keywords, id)
                        ELSE LastWithId(remote_data.keywords, id)

\* k1 on both sides with different words, k2 on the remote side only
C24_Witness ==
    /\ m_pc = "returned"
    /\ local_data.keywords = <<[id |-> "k1", word |-> "huis"]>>
    /\ remote_data.keywords = <<[id |-> "k1", word |-> "boom"], [id |-> "k2", word |-> "boom"]>>
    /\ merged_data.keywords = <<[id |-> "k1", word |-> "huis"], [id |-> "k2", word |-> "boom"]>>

\* ------------------------------------------------ upload claims
FoldersOf(folders, name) == {k \in 1..Len(folders) : folders[k].name = name}

FilesOf(folder, file) == {k \in 1..Len(folder.files) : folder.files[k] = file}

\* no project has two folders and no folder two files of one name
WellKept(folders) ==
    /\ \A name \in ProjectIds : Cardinality(FoldersOf(folders, name)) <= 1
    /\ \A k \in 1..Len(folders), file \in FileNames :
           Cardinality(FilesOf(folders[k], file)) <= 1

\* C25: upload_to_drive makes a pass only for projects whose status is
\* 'ready' and that the selection, if any, names, and a pass touches the
\* folder of its project only; a Drive with at most one folder per project
\* and one file per name stays so through any number of uploads, and on it
\* every uploaded project has exactly one folder with exactly one
\* project.json.
C25_ReadyOnlyOneFolderOneJson ==
    /\ [](sync_pc = "uploading" =>
              \A i \in 1..Len(projects) :
                  /\ local_projects[projects[i]] = "ready"
                  /\ project_ids = {} \/ projects[i] \in project_ids)
    /\ [][(sync_pc = "uploading" /\ pos' # pos) =>
              /\ \A k \in 1..Len(drive) : drive[k].name # PassId => drive'[k] = drive[k]
              /\ Len(drive') \in {Len(drive), Len(drive) + 1}
              /\ Len(drive') > Len(drive) => drive'[Len(drive')].name = PassId]_vars
    /\ [][sync_pc \notin {"uploading"} => drive' = drive]_vars
    /\ [][WellKept(drive) => WellKept(drive')]_vars
    /\ [](WellKept(drive) =>
              \A i \in 1..Len(sync_results.uploaded) :
                  LET id == sync_results.uploaded[i]
                  IN  /\ Cardinality(FoldersOf(drive, id)) = 1
                      /\ Cardinality(FilesOf(drive[_find_folder(drive, id)],
                                             "project.json")) = 1)

\* p1 uploaded in the second call onto a Drive that holds its folder with
\* project.json and audio.mp3, while the selected p2 is not ready
C25_Witness ==
    /\ sync_calls = 2
    /\ sync_pc = "returned"
    /\ project_ids = ProjectIds
    /\ local_projects["p2"] = "error"
    /\ sync_results.uploaded = <<"p1">>
    /\ sync_results.errors = << >>
    /\ drive = <<DriveFolder("p1", <<"project.json", "audio.mp3">>)>>



\* ---- C26: Project.progress is the fixed base of the status (pending 0,
\* extracting 10, transcribing 30, ready 100, error 0), except that for
\* status explaining with total_sentences > 0 it is
\* 50 + floor(45 * processed_sentences / total_sentences), a value in 50..95
\* whenever processed_sentences <= total_sentences.
StatedBase ==
    [pending |-> 0, extracting |-> 10, transcribing |-> 30, ready |-> 100, error |-> 0]

C26_ProgressByStatus ==
    shown # NotRead =>
        /\ (status = "explaining" /\ total_sentences > 0) =>
               /\ shown = 50 + ((45 * processed_sentences) \div total_sentences)
               /\ processed_sentences <= total_sentences => shown \in 50..95
        /\ status \in DOMAIN StatedBase => shown = StatedBase[status]

\* ---- C27: transcribe_with_retry and explain_with_retry call the
\* collaborator at most max_retries times; a call that returns ends the loop
\* with no further call; after the failed attempt k (from 0) that is not the
\* last they sleep retry_delay * 2^k, after the last failed attempt they do
\* not sleep; when max_retries attempts have all failed they raise
\* TranscriptionError, respectively ExplanationError.
Doubling(n) == [k \in 1..n |-> r_delay * pow2(k - 1)]

RetryLedger ==
    /\ r_calls <= r_max
    /\ r_pc = "attempt" => (r_calls = r_attempt /\ r_waits = Doubling(r_attempt))
    /\ r_pc = "sleeping" => (r_calls = r_attempt + 1 /\ r_calls < r_max
                               /\ r_waits = Doubling(r_calls))
    /\ r_pc = "returned" => (r_calls = r_attempt + 1 /\ r_waits = Doubling(r_calls - 1)
                               /\ r_raised = "none")
    /\ (r_pc = "raised" /\ r_calls = r_max /\ r_max > 0) =>
           r_waits = Doubling(r_max - 1)
    /\ (r_pc = "raised" /\ r_raised = typed_error(r_fn)) =>
           (r_calls = r_max /\ r_attempt >= r_max - 1)
    /\ (r_pc = "raised" /\ r_raised # typed_error(r_fn)) =>
           (r_raised \in other_errors(r_fn) /\ r_waits = Doubling(r_calls - 1))

\* C27: the calls and sleeps of the loop are as stated above at every point,
\* and nothing is called or slept once the call has returned or raised
C27_RetryWithBackoff ==
    /\ []RetryLedger
    /\ [][(r_pc \in {"returned", "raised"}) =>
             (r_calls' = r_calls /\ r_waits' = r_waits)]_vars

C27_Witness ==
    /\ r_pc = "raised"
    /\ r_raised = typed_error(r_fn)
    /\ r_max = MaxRetries
    /\ r_delay = 2
    /\ r_waits = <<2, 4>> \o [k \in 1..(MaxRetries - 3) |-> 2 * pow2(k + 1)]

\* ---- C28: split_utterances terminates for every text and every
\* max_words >= 1: each recursive call of _split_on_clauses works on a
\* segment with strictly fewer words than its caller's segment.
\* the segments a call of _split_on_clauses on words passes to itself
recursive_calls(words, maxw) ==
    IF Len(words) <= maxw \/ boundary_positions(words) = {} THEN {}
    ELSE LET b == best_pos(words)
             left == PySlice(words, 0, b + 1)
             right == PySlice(words, b + 1, Len(words))
         IN  {w \in {left, right} : Len(w) > maxw}

\* every segment _split_on_clauses is called on, from the calls in todo on
RECURSIVE clause_calls(_, _, _)
clause_calls(todo, seen, maxw) ==
    IF todo \subseteq seen THEN seen
    ELSE clause_calls(UNION {recursive_calls(w, maxw) : w \in todo}, seen \cup todo, maxw)

\* step 2 of _split_utterance calls _split_on_clauses on the sentences over
\* the budget
first_calls(text, maxw) ==
    {sentence_split(text)[k] : k \in {i \in 1..Len(sentence_split(text)) :
                                          Len(sentence_split(text)[i]) > maxw}}

C28_ClauseSplitShrinks ==
    s_pc \in {"returned", "raised"} =>
        /\ \A w \in clause_calls(first_calls(utt.text, max_words), {}, max_words) :
               \A c \in recursive_calls(w, max_words) : Len(c) < Len(w)
        /\ s_pc # "raised"

\* the ids of the sentences a document lists
DocSentenceIds(doc) == {doc.sentences[i].id : i \in 1..Len(doc.sentences)}

\* the sentences of the project both sides had when the endpoint was called
OnBothSides(db, doc) ==
    {id \in DOMAIN db.sentences : db.sentences[id].project_id = "p1"} \cap DocSentenceIds(doc)

\* ---- C29: after full_sync (upload, then download) on a project that is
\* local and on Drive, progress recorded only in the pre-sync remote
\* document is not lost: for every sentence on both sides the local
\* learn_count and review_count are at least the pre-sync remote values, and
\* learned and is_difficult are true wherever the pre-sync remote document
\* had them true.
C29_FullSyncKeepsRemoteProgress ==
    (endpoint = "full_sync" /\ full_pc = "done" /\ download_result = "merged") =>
        \A id \in OnBothSides(local_before, remote_before) :
            LET remote == LastWithId(remote_before.sentences, id)
                row == database.sentences[id]
            IN  /\ CountOf(row.learn_count) >= CountOf(remote.learn_count)
                /\ CountOf(row.review_count) >= CountOf(remote.review_count)
                /\ Truthy(remote.learned) => Truthy(row.learned)
                /\ Truthy(remote.is_difficult) => Truthy(row.is_difficult)

\* ---- C30: after download_from_drive merged and imported a project that
\* is local, every sentence on both sides has learn_count and review_count
\* the larger of the local value before the download and the remote one,
\* and is learned / difficult exactly when it was on one side; no local
\* count is lowered and no local flag goes from true to false.
C30_DownloadMaxAndOr ==
    (full_pc = "done" /\ download_result = "merged") =>
        /\ \A id \in OnBothSides(local_before, snapshot) :
               LET remote == LastWithId(snapshot.sentences, id)
                   before == local_before.sentences[id]
                   row == database.sentences[id]
               IN  /\ row.learn_count =
                          JInt(Max(CountOf(before.learn_count), CountOf(remote.learn_count)))
                   /\ row.review_count =
                          JInt(Max(CountOf(before.review_count), CountOf(remote.review_count)))
                   /\ Truthy(row.learned) <=> (Truthy(before.learned) \/ Truthy(remote.learned))
                   /\ Truthy(row.is_difficult) <=>
                          (Truthy(before.is_difficult) \/ Truthy(remote.is_difficult))
        /\ \A id \in DOMAIN local_before.sentences :
               /\ id \in DOMAIN database.sentences
               /\ CountOf(database.sentences[id].learn_count)
                      >= CountOf(local_before.sentences[id].learn_count)
               /\ CountOf(database.sentences[id].review_count)
                      >= CountOf(local_before.sentences[id].review_count)
               /\ Truthy(local_before.sentences[id].learned)
                      => Truthy(database.sentences[id].learned)
               /\ Truthy(local_before.sentences[id].is_difficult)
                      => Truthy(database.sentences[id].is_difficult)

\* the download endpoint merged a remote learn_count above the local one and
\* a remote learned flag into a sentence not learned locally
C30_Witness ==
    /\ endpoint = "download"
    /\ full_pc = "done"
    /\ download_result = "merged"
    /\ "s1" \in OnBothSides(local_before, snapshot)
    /\ local_before.sentences["s1"].learn_count = JInt(1)
    /\ local_before.sentences["s1"].learned = JBool(FALSE)
    /\ LastWithId(snapshot.sentences, "s1").learn_count = JInt(MaxCount)
    /\ LastWithId(snapshot.sentences, "s1").learned = JBool(TRUE)
    /\ database.sentences["s1"].learn_count = JInt(MaxCount)
    /\ database.sentences["s1"].learned = JBool(TRUE)

\* the document imported has a record for the speaker, and it is not manual
RecordNotManual(id) ==
    \E i \in 1..Len(snapshot.speakers) :
        /\ snapshot.speakers[i].id = JStr(id)
        /\ \A j \in 1..Len(snapshot.speakers) :
               snapshot.speakers[j].id = JStr(id) =>
                   ~Truthy(dict_get(snapshot.speakers[j].is_manual, JBool(FALSE)))

\* ---- C31: once a Speaker's is_manual is true it stays true through every
\* identification stage, update_speaker call and import of a (merged)
\* snapshot; and while it is true, the import of a snapshot whose record for
\* the speaker is not manual leaves the speaker's display_name as it is.
C31_ManualStaysLocked ==
    [][\A id \in DOMAIN database.speakers :
           Truthy(database.speakers[id].is_manual) =>
               /\ id \in DOMAIN database'.speakers
               /\ Truthy(database'.speakers[id].is_manual)
               /\ (imports' = imports + 1 /\ RecordNotManual(id)) =>
                      database'.speakers[id].display_name
                          = database.speakers[id].display_name]_vars

\* a speaker of the project under identification, named by the user, has
\* been through the import of a document that lists it as not manual
C31_Witness ==
    /\ imports >= 1
    /\ "sp1" \in DOMAIN database.speakers
    /\ database.speakers["sp1"].is_manual = JBool(TRUE)
    /\ database.speakers["sp1"].display_name = JStr("Piet")
    /\ RecordNotManual("sp1")
    /\ DOMAIN database.keywords = {}

\* ---- C32: along a successful run the percentage Project.progress reports
\* never decreases, as the status advances pending -> extracting ->
\* transcribing -> identifying -> explaining -> ready and as
\* processed_sentences grows during explaining.
C32_ProgressNeverDecreases ==
    [][(status' # "error" /\ status # "error")
         => progress_of(status', total_sentences', processed_sentences') >= progress]_vars

\* ---- C33: ProgressMerger.merge returns, without raising, for every pair
\* of documents whose timestamp fields (created_at, a sentence's
\* last_reviewed, progress.last_sync) are each absent, unparsable, or a valid
\* ISO-8601 string with or without a UTC offset, in any combination.
C33_MergeNeverRaises == m_pc # "raised"

\* ---- C34: for an utterance with start <= end whose word timestamps are
\* non-decreasing and lie within [start, end], the returned segments are
\* ordered in time whatever the number of word timestamps is: every segment
\* starts no later than it ends, and every segment after the first starts no
\* earlier than the segment before it ends.
C34_SegmentsOrderedInTime ==
    s_pc = "returned" =>
        /\ \A i \in 1..Len(result) : result[i].start <= result[i].end
        /\ \A i \in 2..Len(result) : result[i].start >= result[i - 1].end

\* ---- C35: when an over-budget segment of n words has clause boundary
\* words, the clause pass cuts directly after the boundary word whose index p
\* minimises |p - floor(n/2)|, and after the lowest such index when two
\* boundary words are equally far from the midpoint.
\* the index the statement names, for a segment with a boundary word
StatedCut(words) ==
    LET n == Len(words)
        bp == {i \in 0..(n - 1) : words[i + 1].p = "c"}
        far(q) == IF q >= n \div 2 THEN q - n \div 2 ELSE n \div 2 - q
    IN  CHOOSE q \in bp : \A r \in bp : far(q) < far(r) \/ (far(q) = far(r) /\ q <= r)

\* the utterance is one segment for the clause pass, over budget and with a
\* clause boundary word
ClausePassCuts ==
    /\ Len(sentence_split(utt.text)) = 1
    /\ Len(utt.text) > max_words
    /\ \E i \in 1..Len(utt.text) : utt.text[i].p = "c"

\* the texts after the passes are those of the part up to and including the
\* word of 0-based index StatedCut, followed by those of the part after it:
\* the first cut was made directly after that word
C35_CutClosestToMidpoint ==
    (s_pc = "returned" /\ ClausePassCuts) =>
        LET p == StatedCut(utt.text)
            left == SubSeq(utt.text, 1, p + 1)
            right == SubSeq(utt.text, p + 2, Len(utt.text))
        IN  /\ right # << >>
            /\ final_texts = final_texts_of(left, max_words) \o final_texts_of(right, max_words)

\* two boundary words equally far from the midpoint, neither the last word
C35_Witness ==
    /\ s_pc = "returned"
    /\ ClausePassCuts
    /\ LET mid == Len(utt.text) \div 2
       IN  \E d \in 1..mid :
               /\ mid + d < Len(utt.text) - 1
               /\ utt.text[mid - d + 1].p = "c"
               /\ utt.text[mid + d + 1].p = "c"
    /\ Len(final_texts) >= 2

\* ---- C36: the explain stage covers the n sentences of the project in idx
\* order by consecutive batches of explanation_batch_size sentences, the last
\* one possibly smaller, each sentence in exactly one batch; after batch k
\* commits processed_sentences is min(k * batch_size, n); and when the status
\* becomes ready processed_sentences equals total_sentences.
\* the sentences explained so far, by idx
ExplainedIdx(rows) == {rows[j].idx : j \in {i \in 1..Len(rows) : rows[i].explained}}

\* the step in which a batch is committed
BatchCommits == pc = "explain" /\ processed_sentences' # processed_sentences

C36_ExplainInBatches ==
    /\ [][BatchCommits =>
             LET n == Len(sentences)
                 k == processed_sentences \div explanation_batch_size + 1
                 upto == IF k * explanation_batch_size <= n
                         THEN k * explanation_batch_size ELSE n
             IN  /\ n = total_sentences
                 /\ processed_sentences = (k - 1) * explanation_batch_size
                 /\ ExplainedIdx(sentences) = 0..(processed_sentences - 1)
                 /\ batch(batch_i, n) =
                        {j \in 1..n : sentences[j].idx \in processed_sentences..(upto - 1)}
                 /\ \A j \in batch(batch_i, n) : ~sentences[j].explained
                 /\ ExplainedIdx(sentences') = 0..(upto - 1)
                 /\ processed_sentences' = upto]_vars
    /\ [](status = "ready" =>
             /\ processed_sentences = total_sentences
             /\ ExplainedIdx(sentences) = 0..(total_sentences - 1))

\* a finished run of two batches, the second smaller than the first
C36_Witness ==
    /\ pc = "done"
    /\ status = "ready"
    /\ total_sentences > explanation_batch_size
    /\ total_sentences < 2 * explanation_batch_size
    /\ processed_sentences = total_sentences

\* ---- C37: when the transcribe stage commits n sentences their idx values
\* are exactly 0..n-1, without gap or duplicate and in the order of the
\* splitter's output, total_sentences is n and processed_sentences is 0; and
\* when saving fails no Speaker and no Sentence row of the stage is persisted.
\* the rows are the n segments of out, the k-th one under idx k - 1
SavedInOrder(rows, out) ==
    /\ Len(rows) = Len(out)
    /\ \A i \in 1..Len(rows) : \A j \in 1..Len(rows) : rows[i].idx = rows[j].idx => i = j
    /\ \A k \in 1..Len(out) :
           \E j \in 1..Len(rows) : /\ rows[j].idx = k - 1
                                   /\ rows[j].text = out[k].text
                                   /\ rows[j].speaker_id = out[k].speaker_label

C37_TranscribeCommitsInOrder ==
    /\ [][(pc = "transcribe" /\ pc' = "saved") =>
             /\ {sentences'[j].idx : j \in 1..Len(sentences')} = 0..(Len(sentences') - 1)
             /\ \E us \in TranscribedUtterances :
                    SavedInOrder(sentences', split_utterances(us, max_sentence_words))
             /\ total_sentences' = Len(sentences')
             /\ processed_sentences' = 0]_vars
    /\ []((pc = "done" /\ exc = [stage |-> "transcribe", kind |-> "SaveError"]) =>
             /\ sentences = << >>
             /\ DOMAIN speakers = {}
             /\ total_sentences = 0)

\* the stage has committed the segments of a split utterance
C37_Witness ==
    /\ pc = "saved"
    /\ Len(sentences) >= 3
    /\ sentences[1].text # sentences[2].text
    /\ total_sentences = Len(sentences)
    /\ processed_sentences = 0

\* ---- C38: ProgressMerger.merge does not modify either of its inputs: the
\* local and the remote document are after the call what they were before.
C38_MergeLeavesInputs ==
    [][(m_pc = "input" /\ m_pc' = "returned") =>
          /\ local_data' = local_data
          /\ remote_data' = remote_data]_vars

\* a merge whose result differs from both inputs in a sentence both have
C38_Witness ==
    /\ m_pc = "returned"
    /\ \E id \in SharedIds :
           \E k \in MergedWithId(id) :
               /\ merged_data.sentences[k] # LastWithId(local_data.sentences, id)
               /\ merged_data.sentences[k] # LastWithId(remote_data.sentences, id)
    /\ merged_data.progress # local_data.progress
    /\ merged_data.progress # remote_data.progress

\* ---- C39: when _import_project raises partway through a document, none of
\* the rows it added and none of the fields it changed for that document is
\* persisted: the tables are as before the call, and the project is
\* reported in the errors list of the download.
C39_FailedImportPersistsNothing ==
    [][(i_pc = "ready" /\ i_pc' = "raised") =>
          /\ database' = database
          /\ sync_results'.errors = Append(sync_results.errors, snapshot.id.s)
          /\ sync_results'.downloaded = sync_results.downloaded]_vars

\* the import raised after it had changed a stored row and added rows
C39_Witness ==
    /\ i_pc = "raised"
    /\ sync_results.errors = <<snapshot.id.s>>
    /\ LET ses == import_session(database, snapshot, 0)
       IN  /\ ses.tables # database
           /\ ses.added_sentences # << >>

\* ---- C40: the import endpoint skips the projects that exist already:
\* uploading the same export file a second time to the same database creates
\* nothing, the number of projects after the second import equals the number
\* after the first.
C40_SecondUploadCreatesNothing ==
    [][(uploads = 1 /\ uploads' = 2) => Len(project_table') = Len(project_table)]_vars
====
